---------------------------- MODULE Spec2Model ----------------------------
(***************************************************************************)
(* Model of routrace-data's highway discovery and corridor grouping        *)
(* (scripts/osm_parser.py, scripts/main.py, scripts/highway.py).           *)
(*                                                                         *)
(* Strings are sequences of characters.  Every character of the Japanese   *)
(* names is written as one ASCII token (its reading), because the module   *)
(* text is ASCII: <<"kou","soku">> is the two-character string 高速.        *)
(* The absent value (Python's None) is the one-element sequence None,      *)
(* whose token occurs in no name.                                          *)
(*                                                                         *)
(* Character table: 高 kou, 速 soku, 自 ji, 動 dou, 車 sha, 道 michi,       *)
(* 京 kei, 葉 you, 路 ro, 架 ka, 橋 hashi, 入 iri, 口 kuchi, 出 de, 新 shin, *)
(* 設 setsu, 工 ko, 事 ji2, 連 ren, 絡 raku, 線 sen, 上 ue, 下 shita,       *)
(* 内 uchi, 外 soto, 回 mawa, り ri, 東 higashi, 西 nishi, 北 kita,         *)
(* 南 minami, 行 i, き ki, 首 shu, 都 to, 名 na, 古 go, 屋 ya, 阪 han,      *)
(* 神 kami, 広 hiro, 島 shima, 九 kyu, 州 shuu, 福 fuku, 岡 oka, 市 shi,    *)
(* 中 naka, 国 kuni, 松 matsu, 陸 riku, 関 kan, 越 etsu, 央 ou, 海 umi,     *)
(* 号 gou, 野 no, 支 sasa, 第 dai, 二 ni, 環 wa, 状 jou, 山 yama, 陽 hi,    *)
(* 戸 do, ト to2, ン n, ネ ne, ル ru, 常 tsune, 磐 iwa, 四 yon, 千 chi;     *)
(* the digits and "-"                                                      *)
(* stand for themselves; "fpar(" and "fpar)" are the full-width            *)
(* parentheses, "(" and ")" the half-width ones, "sp" the space and "nl"   *)
(* the line break.                                                         *)
(***************************************************************************)
EXTENDS Integers, Sequences, FiniteSets, TLC

VARIABLES
    name,               \* the raw name handed to a name function
    base_name,          \* what _extract_base_name returned for it
    urban_group,        \* what detect_group returned for it
    highway_segment,    \* determine_general_group's first argument
    core_segments,      \* determine_general_group's second argument
    nearest_group,      \* what determine_general_group returned
    highways_info,      \* the list of index entries (assign_groups adds "group")
    highway_geojsons,   \* base name -> GeoJSON of the retained highways
    relations,          \* the relations the PBF file has handed to the handler
    way_ids_by_name,    \* HighwayDiscoverer: base name -> set of way ids
    highway_info,       \* HighwayDiscoverer: base name -> name, name_en, ref
    highway_names,      \* generate_highways' name filter (None and [] are both <<>>)
    targets,            \* the discovered highways generate_highways works on
    ways_by_id,         \* extract_all_ways: way id -> way
    next_target,        \* the position of generate_highways' loop in targets
    skipped,            \* names logged by the warning of main.py:404
    failed,             \* names logged by the error of main.py:425
    index,              \* the entries written to index.json
    group_catalog,      \* the groups written to group.json
    written,            \* the output files written so far
    ref_ways,           \* group_ways_by_ref's argument, the list of ways
    ref_groups,         \* the dict ref -> ways (group_ways_by_ref's result)
    display_name,       \* should_split_by_ref's second argument
    should_split,       \* what should_split_by_ref returned
    regrouped,          \* group_ways_by_ref applied to its relabelled result
    extent_coords,      \* get_extent_segment's first argument
    extent_center,      \* get_extent_segment's second argument
    extent_segment,     \* what get_extent_segment returned
    segment1,           \* seg1 of segments_intersect and segment_to_segment_distance
    segment2,           \* seg2 of the same two functions
    crossing,           \* what segments_intersect returned
    segment_distance,   \* what segment_to_segment_distance returned, squared
    pc                  \* where the batch run stands

nameVars == <<name, base_name, urban_group>>
generalVars == <<highway_segment, core_segments, nearest_group>>
groupVars == <<highways_info, highway_geojsons>>
discoverVars == <<relations, way_ids_by_name, highway_info>>
runVars ==
    <<highway_names, targets, ways_by_id, next_target, skipped, failed, index,
      group_catalog, written>>
refVars == <<ref_ways, ref_groups, display_name, should_split, regrouped>>
extentVars == <<extent_coords, extent_center, extent_segment>>
segmentVars == <<segment1, segment2, crossing, segment_distance>>
vars == <<nameVars, generalVars, groupVars, discoverVars, runVars, refVars,
          extentVars, segmentVars, pc>>

None == <<"None">>
Unset == <<"Unset">>

\* the empty dict
EmptyDict == [k \in {} |-> {}]

Min(S) == CHOOSE m \in S : \A k \in S : m <= k

RECURSIVE Concat(_)
Concat(ss) == IF ss = <<>> THEN <<>> ELSE Head(ss) \o Concat(Tail(ss))

(***************************************************************************)
(* Python string primitives                                                *)
(***************************************************************************)
\* s[i:i+len(p)] == p  (i is 1-based)
MatchAt(s, i, p) ==
    i + Len(p) - 1 <= Len(s) /\ \A k \in 1..Len(p) : s[i + k - 1] = p[k]

\* s.startswith(p)
StartsWith(s, p) == MatchAt(s, 1, p)

\* p in s
Contains(s, p) == \E i \in 1..(Len(s) - Len(p) + 1) : MatchAt(s, i, p)

\* the characters str.strip() removes that the model's names can hold
Whitespace == {"sp", "nl"}

\* s.strip()
strip(s) ==
    LET keep == {i \in 1..Len(s) : s[i] \notin Whitespace}
    IN  IF keep = {} THEN <<>>
        ELSE SubSeq(s, Min(keep), CHOOSE m \in keep : \A k \in keep : k <= m)

(***************************************************************************)
(* osm_parser.py: the name tables                                          *)
(***************************************************************************)
\* ['高速', '自動車道', '京葉道路']
HIGHWAY_PATTERNS ==
    << <<"kou","soku">>, <<"ji","dou","sha","michi">>, <<"kei","you","michi","ro">> >>

\* ['高架橋', '入口', '出口', '新設工事', '高架路', '連絡道路']
EXCLUDE_PATTERNS ==
    << <<"kou","ka","hashi">>, <<"iri","kuchi">>, <<"de","kuchi">>,
       <<"shin","setsu","ko","ji2">>, <<"kou","ka","ro">>,
       <<"ren","raku","michi","ro">> >>

\* the literal '線-' of the compound-route test
COMPOUND_MARKER == <<"sen","-">>

\* the character class [（(] of the first substitution
OPEN_PARENS == {"fpar(", "("}

\* (上り|下り|内回り|外回り|東行き|西行き|北行き|南行き), in the order of the alternation
DIRECTIONS ==
    << <<"ue","ri">>, <<"shita","ri">>, <<"uchi","mawa","ri">>,
       <<"soto","mawa","ri">>, <<"higashi","i","ki">>, <<"nishi","i","ki">>,
       <<"kita","i","ki">>, <<"minami","i","ki">> >>

(***************************************************************************)
(* Python's re, for the two patterns of _extract_base_name.  '.' matches   *)
(* every character but the line break; '$' holds at the end of the string  *)
(* and just before a line break that is the string's last character.       *)
(***************************************************************************)
\* '$' holds in front of position k
DollarAt(s, k) == k = Len(s) + 1 \/ (k = Len(s) /\ s[k] = "nl")

\* where the greedy '.*' started at position i stops: the first line break
DotStarStop(s, i) ==
    LET nls == {k \in i..Len(s) : s[k] = "nl"}
    IN  IF nls = {} THEN Len(s) + 1 ELSE Min(nls)

\* r'[（(].*$' matches at p.  '.*' gives characters back, but '$' holds in
\* front of none of them: they are not line breaks.
ParenMatchAt(s, p) == s[p] \in OPEN_PARENS /\ DollarAt(s, DotStarStop(s, p + 1))

\* mutant: the character class holds the half-width parenthesis only
SubParen_HalfWidthOnly(s) ==
    LET ps == {p \in 1..Len(s) : s[p] = "(" /\ DollarAt(s, DotStarStop(s, p + 1))}
    IN  IF ps = {} THEN s
        ELSE SubSeq(s, 1, Min(ps) - 1)
                 \o SubSeq(s, DotStarStop(s, Min(ps) + 1), Len(s))

\* re.sub(r'[（(].*$', '', s): the leftmost match is removed; what is left
\* of s after it holds no further match.
SubParen(s) ==
    LET ps == {p \in 1..Len(s) : ParenMatchAt(s, p)}
    IN  IF ps = {} THEN s
        ELSE SubSeq(s, 1, Min(ps) - 1)
                 \o SubSeq(s, DotStarStop(s, Min(ps) + 1), Len(s))

\* the first alternative that matches at i with '$' behind it, or 0
DirectionAt(s, i) ==
    LET ts == {t \in 1..Len(DIRECTIONS) :
                  MatchAt(s, i, DIRECTIONS[t]) /\ DollarAt(s, i + Len(DIRECTIONS[t]))}
    IN  IF ts = {} THEN 0 ELSE Min(ts)

\* re.sub(r'(上り|...|南行き)$', '', s)
SubDirection(s) ==
    LET is == {i \in 1..Len(s) : DirectionAt(s, i) # 0}
    IN  IF is = {} THEN s
        ELSE LET i == Min(is)
                 n == Len(DIRECTIONS[DirectionAt(s, i)])
             IN  SubSeq(s, 1, i - 1) \o SubSeq(s, i + n, Len(s))

(***************************************************************************)
(* osm_parser.py: HighwayDiscoverer._extract_base_name                     *)
(***************************************************************************)
\* mutant: name.endswith(pattern) for "pattern in name"
HasExcludePattern_EndsWith(n) ==
    \E k \in 1..Len(EXCLUDE_PATTERNS) :
        /\ Len(EXCLUDE_PATTERNS[k]) <= Len(n)
        /\ MatchAt(n, Len(n) - Len(EXCLUDE_PATTERNS[k]) + 1, EXCLUDE_PATTERNS[k])

\* for pattern in EXCLUDE_PATTERNS: if pattern in name
HasExcludePattern(n) ==
    \E k \in 1..Len(EXCLUDE_PATTERNS) : Contains(n, EXCLUDE_PATTERNS[k])

\* mutant: the literal typed with the full-width hyphen, '線－'
HasCompoundMarker_FullWidthHyphen(n) == Contains(n, <<"sen","fw-">>)

\* '線-' in name
HasCompoundMarker(n) == Contains(n, COMPOUND_MARKER)

\* mutant: the allow-list before '京葉道路' was added to it
HasHighwayPattern_NoKeiyo(n) ==
    \E k \in 1..2 : Contains(n, HIGHWAY_PATTERNS[k])

\* any(p in name for p in HIGHWAY_PATTERNS)
HasHighwayPattern(n) ==
    \E k \in 1..Len(HIGHWAY_PATTERNS) : Contains(n, HIGHWAY_PATTERNS[k])

_extract_base_name(n) ==
    IF HasExcludePattern(n) THEN None
    ELSE IF HasCompoundMarker(n) THEN None
    ELSE IF ~HasHighwayPattern(n) THEN None
    ELSE LET stripped == strip(SubDirection(SubParen(n)))
         IN  IF stripped # <<>> THEN stripped ELSE None

(***************************************************************************)
(* main.py: the group tables                                               *)
(***************************************************************************)
\* ["首都高速", "名古屋高速", "阪神高速", "広島高速", "北九州高速", "福岡高速"]
URBAN_EXPRESSWAY_PREFIXES ==
    << <<"shu","to","kou","soku">>, <<"na","go","ya","kou","soku">>,
       <<"han","kami","kou","soku">>, <<"hiro","shima","kou","soku">>,
       <<"kita","kyu","shuu","kou","soku">>, <<"fuku","oka","kou","soku">> >>

\* {"北九州都市高速": "北九州高速", "福岡都市高速": "福岡高速",
\*  "東京高速道路": "首都高速"}, as <<alias, group>> in the dict's order
URBAN_EXPRESSWAY_ALIASES ==
    << << <<"kita","kyu","shuu","to","shi","kou","soku">>,
          <<"kita","kyu","shuu","kou","soku">> >>,
       << <<"fuku","oka","to","shi","kou","soku">>, <<"fuku","oka","kou","soku">> >>,
       << <<"higashi","kei","kou","soku","michi","ro">>, <<"shu","to","kou","soku">> >> >>

\* "道路", the suffix of the alternate spelling
ROAD_SUFFIX == <<"michi","ro">>

\* "名古屋"
NAGOYA == <<"na","go","ya">>

\* "名古屋高速"
NAGOYA_GROUP == <<"na","go","ya","kou","soku">>

(***************************************************************************)
(* main.py: detect_group                                                   *)
(***************************************************************************)
\* mutant: name == prefix for name.startswith(prefix)
PrefixHits_ExactMatch(n) ==
    {k \in 1..Len(URBAN_EXPRESSWAY_PREFIXES) : n = URBAN_EXPRESSWAY_PREFIXES[k]}

\* for prefix in URBAN_EXPRESSWAY_PREFIXES: if name.startswith(prefix)
PrefixHits(n) ==
    {k \in 1..Len(URBAN_EXPRESSWAY_PREFIXES) :
        StartsWith(n, URBAN_EXPRESSWAY_PREFIXES[k])}

\* mutant: name.startswith(alias[0]), the alias's first character
AliasHits_FirstCharacter(n) ==
    {k \in 1..Len(URBAN_EXPRESSWAY_ALIASES) :
        StartsWith(n, <<URBAN_EXPRESSWAY_ALIASES[k][1][1]>>)}

\* mutant: name == alias for name.startswith(alias)
AliasHits_ExactMatch(n) ==
    {k \in 1..Len(URBAN_EXPRESSWAY_ALIASES) : n = URBAN_EXPRESSWAY_ALIASES[k][1]}

\* for alias, group in URBAN_EXPRESSWAY_ALIASES.items(): if name.startswith(alias)
AliasHits(n) ==
    {k \in 1..Len(URBAN_EXPRESSWAY_ALIASES) :
        StartsWith(n, URBAN_EXPRESSWAY_ALIASES[k][1])}

\* alt_prefix = prefix + "道路"; if name.startswith(alt_prefix)
AltPrefixHits(n) ==
    {k \in 1..Len(URBAN_EXPRESSWAY_PREFIXES) :
        StartsWith(n, URBAN_EXPRESSWAY_PREFIXES[k] \o ROAD_SUFFIX)}

detect_group(n) ==
    IF PrefixHits(n) # {} THEN URBAN_EXPRESSWAY_PREFIXES[Min(PrefixHits(n))]
    ELSE IF AliasHits(n) # {} THEN URBAN_EXPRESSWAY_ALIASES[Min(AliasHits(n))][2]
    ELSE IF AltPrefixHits(n) # {} THEN URBAN_EXPRESSWAY_PREFIXES[Min(AltPrefixHits(n))]
    ELSE IF StartsWith(n, NAGOYA) THEN NAGOYA_GROUP
    ELSE None

\* {"東名高速道路": "東名", "名神高速道路": "名神", "中国自動車道": "中国",
\*  "高松自動車道": "四国", "九州自動車道": "九州", "京葉道路": "千葉",
\*  "北陸自動車道": "北陸", "関越自動車道": "関越", "東北自動車道": "東北",
\*  "道央自動車道": "北海道"}, as <<name, label>> in the dict's order
CORE_HIGHWAYS ==
    << << <<"higashi","na","kou","soku","michi","ro">>, <<"higashi","na">> >>,
       << <<"na","kami","kou","soku","michi","ro">>, <<"na","kami">> >>,
       << <<"naka","kuni","ji","dou","sha","michi">>, <<"naka","kuni">> >>,
       << <<"kou","matsu","ji","dou","sha","michi">>, <<"yon","kuni">> >>,
       << <<"kyu","shuu","ji","dou","sha","michi">>, <<"kyu","shuu">> >>,
       << <<"kei","you","michi","ro">>, <<"chi","you">> >>,
       << <<"kita","riku","ji","dou","sha","michi">>, <<"kita","riku">> >>,
       << <<"kan","etsu","ji","dou","sha","michi">>, <<"kan","etsu">> >>,
       << <<"higashi","kita","ji","dou","sha","michi">>, <<"higashi","kita">> >>,
       << <<"michi","ou","ji","dou","sha","michi">>, <<"kita","umi","michi">> >> >>

\* the 16 group names, in display order
GROUP_ORDER ==
    << <<"shu","to","kou","soku">>, <<"higashi","na">>,
       <<"na","go","ya","kou","soku">>, <<"na","kami">>,
       <<"han","kami","kou","soku">>, <<"naka","kuni">>,
       <<"hiro","shima","kou","soku">>, <<"yon","kuni">>, <<"kyu","shuu">>,
       <<"kita","kyu","shuu","kou","soku">>, <<"fuku","oka","kou","soku">>,
       <<"chi","you">>, <<"kita","riku">>, <<"kan","etsu">>,
       <<"higashi","kita">>, <<"kita","umi","michi">> >>

\* mutant: the default is the highway's name "東名高速道路", not its label
DEFAULT_GROUP_HighwayName == <<"higashi","na","kou","soku","michi","ro">>

\* nearest_group = "東名", the default of determine_general_group and of
\* assign_groups' last branch
DEFAULT_GROUP == <<"higashi","na">>

\* name in CORE_HIGHWAYS
InCoreHighways(n) == \E k \in 1..Len(CORE_HIGHWAYS) : CORE_HIGHWAYS[k][1] = n

\* CORE_HIGHWAYS[name]
CoreLabel(n) ==
    CORE_HIGHWAYS[CHOOSE k \in 1..Len(CORE_HIGHWAYS) : CORE_HIGHWAYS[k][1] = n][2]

(***************************************************************************)
(* main.py: geometry.  A point is <<lon, lat>> in units of 0.0001 degree.  *)
(* The arithmetic is exact: a quotient is the pair <<numerator,            *)
(* denominator>> (denominator > 0; <<1, 0>> is float("inf")), and          *)
(* segment_to_segment_distance stands for its square (x ** 0.5 keeps the   *)
(* order of its arguments).                                                *)
(***************************************************************************)
\* (139.7671, 35.6812)
TOKYO_STATION == <<1397671, 356812>>

Inf == <<1, 0>>

FracLess(a, b) == a[1] * b[2] < b[1] * a[2]

FracMin2(a, b) == IF FracLess(b, a) THEN b ELSE a

distance_squared(p1, p2) ==
    (p1[1] - p2[1]) * (p1[1] - p2[1]) + (p1[2] - p2[2]) * (p1[2] - p2[2])

cross_product(o, a, b) ==
    (a[1] - o[1]) * (b[2] - o[2]) - (a[2] - o[2]) * (b[1] - o[1])

\* mutant: the loop with "dist >= max_dist", the last farthest point on a tie
RECURSIVE ExtentLoop_LastOnTies(_, _, _)
ExtentLoop_LastOnTies(coords, center, acc) ==
    IF coords = <<>> THEN <<acc[3], acc[4]>>
    ELSE LET coord == Head(coords)
             dist == distance_squared(coord, center)
             lower == acc[1] = -1 \/ dist < acc[1]
             higher == dist >= acc[2]
         IN  ExtentLoop_LastOnTies(Tail(coords), center,
                 << IF lower THEN dist ELSE acc[1],
                    IF higher THEN dist ELSE acc[2],
                    IF lower THEN coord ELSE acc[3],
                    IF higher THEN coord ELSE acc[4] >>)

\* the loop of get_extent_segment: acc is <<min_dist, max_dist, nearest, farthest>>,
\* min_dist = -1 standing for float("inf")
RECURSIVE ExtentLoop(_, _, _)
ExtentLoop(coords, center, acc) ==
    IF coords = <<>> THEN <<acc[3], acc[4]>>
    ELSE LET coord == Head(coords)
             dist == distance_squared(coord, center)
             lower == acc[1] = -1 \/ dist < acc[1]
             higher == dist > acc[2]
         IN  ExtentLoop(Tail(coords), center,
                 << IF lower THEN dist ELSE acc[1],
                    IF higher THEN dist ELSE acc[2],
                    IF lower THEN coord ELSE acc[3],
                    IF higher THEN coord ELSE acc[4] >>)

get_extent_segment(coords, center) ==
    IF coords = <<>> THEN None
    ELSE ExtentLoop(coords, center, <<-1, 0, coords[1], coords[1]>>)

\* mutant: a cross product of 0 counts as either side
segments_intersect_Touching(seg1, seg2) ==
    LET p1 == seg1[1]
        p2 == seg1[2]
        p3 == seg2[1]
        p4 == seg2[2]
        d1 == cross_product(p3, p4, p1)
        d2 == cross_product(p3, p4, p2)
        d3 == cross_product(p1, p2, p3)
        d4 == cross_product(p1, p2, p4)
    IN  /\ (d1 >= 0 /\ d2 <= 0) \/ (d1 <= 0 /\ d2 >= 0)
        /\ (d3 >= 0 /\ d4 <= 0) \/ (d3 <= 0 /\ d4 >= 0)

segments_intersect(seg1, seg2) ==
    LET p1 == seg1[1]
        p2 == seg1[2]
        p3 == seg2[1]
        p4 == seg2[2]
        d1 == cross_product(p3, p4, p1)
        d2 == cross_product(p3, p4, p2)
        d3 == cross_product(p1, p2, p3)
        d4 == cross_product(p1, p2, p4)
    IN  /\ (d1 > 0 /\ d2 < 0) \/ (d1 < 0 /\ d2 > 0)
        /\ (d3 > 0 /\ d4 < 0) \/ (d3 < 0 /\ d4 > 0)

\* mutant: t is not clamped, the distance to the line through seg
point_to_segment_distance_squared_Unclamped(point, seg) ==
    LET x1 == seg[1][1]
        y1 == seg[1][2]
        dx == seg[2][1] - x1
        dy == seg[2][2] - y1
        s  == (point[1] - x1) * dx + (point[2] - y1) * dy
        l  == dx * dx + dy * dy
        ex == (point[1] - x1) * l - s * dx
        ey == (point[2] - y1) * l - s * dy
    IN  IF dx = 0 /\ dy = 0 THEN <<distance_squared(point, seg[1]), 1>>
        ELSE <<ex * ex + ey * ey, l * l>>

\* the quotient distance_squared(point, (proj_x, proj_y)), with
\* t = max(0, min(1, s / l)) kept as the quotient tn / td
point_to_segment_distance_squared(point, seg) ==
    LET x1 == seg[1][1]
        y1 == seg[1][2]
        dx == seg[2][1] - x1
        dy == seg[2][2] - y1
        s  == (point[1] - x1) * dx + (point[2] - y1) * dy
        l  == dx * dx + dy * dy
        tn == IF s <= 0 THEN 0 ELSE IF s >= l THEN 1 ELSE s
        td == IF s <= 0 \/ s >= l THEN 1 ELSE l
        ex == (point[1] - x1) * td - tn * dx
        ey == (point[2] - y1) * td - tn * dy
    IN  IF dx = 0 /\ dy = 0 THEN <<distance_squared(point, seg[1]), 1>>
        ELSE <<ex * ex + ey * ey, td * td>>

\* mutant: only the endpoints of seg1 are measured
segment_to_segment_distance_OneWay(seg1, seg2) ==
    IF segments_intersect(seg1, seg2) THEN <<0, 1>>
    ELSE FracMin2(point_to_segment_distance_squared(seg1[1], seg2),
                  point_to_segment_distance_squared(seg1[2], seg2))

segment_to_segment_distance(seg1, seg2) ==
    IF segments_intersect(seg1, seg2) THEN <<0, 1>>
    ELSE FracMin2(
             FracMin2(point_to_segment_distance_squared(seg1[1], seg2),
                      point_to_segment_distance_squared(seg1[2], seg2)),
             FracMin2(point_to_segment_distance_squared(seg2[1], seg1),
                      point_to_segment_distance_squared(seg2[2], seg1)))

(***************************************************************************)
(* main.py: determine_general_group.  core_segments is a dict: a sequence  *)
(* of <<name, segment>> with distinct names, in insertion order.           *)
(***************************************************************************)
DictHas(d, key) == \E i \in 1..Len(d) : d[i][1] = key

DictGet(d, key) == d[CHOOSE i \in 1..Len(d) : d[i][1] = key][2]

\* mutant: distance <= min_distance
Closer_OrEqual(distance, min_distance) == ~FracLess(min_distance, distance)

\* if distance < min_distance
Closer(distance, min_distance) == FracLess(distance, min_distance)

\* for highway_name in CORE_HIGHWAYS, from the k-th entry on; seg is
\* highway_segment, cores is core_segments
RECURSIVE GeneralLoop(_, _, _, _, _)
GeneralLoop(k, seg, cores, min_distance, nearest) ==
    IF k > Len(CORE_HIGHWAYS) THEN nearest
    ELSE IF ~DictHas(cores, CORE_HIGHWAYS[k][1])
    THEN GeneralLoop(k + 1, seg, cores, min_distance, nearest)
    ELSE LET distance ==
                 segment_to_segment_distance(
                     seg, DictGet(cores, CORE_HIGHWAYS[k][1]))
         IN  IF Closer(distance, min_distance)
             THEN GeneralLoop(k + 1, seg, cores, distance, CORE_HIGHWAYS[k][2])
             ELSE GeneralLoop(k + 1, seg, cores, min_distance, nearest)

determine_general_group(seg, cores) ==
    GeneralLoop(1, seg, cores, Inf, DEFAULT_GROUP)

(***************************************************************************)
(* main.py: get_all_coordinates and assign_groups.  A GeoJSON is the       *)
(* sequence of its features, a feature the record of its geometry's type   *)
(* and coordinates.                                                        *)
(***************************************************************************)
\* the coordinates one feature contributes
FeatureCoordinates(feature) ==
    IF feature.type = "LineString" THEN feature.coordinates
    ELSE IF feature.type = "MultiLineString" THEN Concat(feature.coordinates)
    ELSE <<>>

RECURSIVE get_all_coordinates(_)
get_all_coordinates(geojson) ==
    IF geojson = <<>> THEN <<>>
    ELSE FeatureCoordinates(Head(geojson)) \o get_all_coordinates(Tail(geojson))

\* highway_segments: name -> extent segment, for the names that have one
HighwaySegments(geojsons) ==
    LET seg(n) == get_extent_segment(get_all_coordinates(geojsons[n]), TOKYO_STATION)
    IN  [n \in {m \in DOMAIN geojsons : seg(m) # None} |-> seg(n)]

\* core_segments: filled in the order of CORE_HIGHWAYS, from the k-th entry on
RECURSIVE CoreSegments(_, _)
CoreSegments(k, segments) ==
    IF k > Len(CORE_HIGHWAYS) THEN <<>>
    ELSE IF CORE_HIGHWAYS[k][1] \in DOMAIN segments
    THEN << <<CORE_HIGHWAYS[k][1], segments[CORE_HIGHWAYS[k][1]]>> >>
             \o CoreSegments(k + 1, segments)
    ELSE CoreSegments(k + 1, segments)

\* mutant: the branch for the core highways themselves is missing
EntryGroup_NoCoreRule(n, segments, cores) ==
    IF detect_group(n) # None THEN detect_group(n)
    ELSE IF n \in DOMAIN segments /\ cores # <<>>
    THEN determine_general_group(segments[n], cores)
    ELSE DEFAULT_GROUP

\* the body of assign_groups' second loop: the group of the entry named n
EntryGroup(n, segments, cores) ==
    IF detect_group(n) # None THEN detect_group(n)
    ELSE IF InCoreHighways(n) THEN CoreLabel(n)
    ELSE IF n \in DOMAIN segments /\ cores # <<>>
    THEN determine_general_group(segments[n], cores)
    ELSE DEFAULT_GROUP

\* the list highways_info after assign_groups(highways_info, highway_geojsons)
assign_groups(infos, geojsons) ==
    LET segments == HighwaySegments(geojsons)
        cores == CoreSegments(1, segments)
    IN  [i \in 1..Len(infos) |->
            [infos[i] EXCEPT !.group = EntryGroup(infos[i].name, segments, cores)]]

(***************************************************************************)
(* The names the name functions are applied to: every concatenation of at  *)
(* most MaxFrags fragments, and the names of the repository's tests.       *)
(***************************************************************************)
MaxFrags == 3

Words(frags, n) == {Concat(fs) : fs \in UNION {[1..k -> frags] : k \in 0..n}}

\* fragments of the normalizer's tables, whole and in parts
NormalizeFragments ==
    { <<"kou","soku">>, <<"ji","dou","sha","michi">>, <<"kei","you">>,
      <<"michi","ro">>, <<"ren","raku">>, <<"kou","ka">>, <<"hashi">>, <<"ro">>,
      <<"iri","kuchi">>, <<"de","kuchi">>, <<"shin","setsu","ko","ji2">>,
      <<"sen">>, <<"-">>, <<"fpar(">>, <<"(">>,
      <<"ue","ri">>, <<"uchi","mawa","ri">>, <<"minami","i","ki">>,
      <<"sp">>, <<"nl">> }

\* "名古屋第二環状自動車道支線", "阪神高速32号新神戸トンネル",
\* "山陽自動車道倉敷早島支線" is left out (it adds no character class),
\* "首都高速川口線-中央環状線" as "首都高速線-環状線"
NormalizeExamples ==
    { <<"na","go","ya","dai","ni","wa","jou","ji","dou","sha","michi","sasa","sen">>,
      <<"han","kami","kou","soku","3","2","gou","shin","kami","do","to2","n","ne","ru">>,
      <<"shu","to","kou","soku","sen","-","wa","jou","sen">>,
      <<"higashi","na","kou","soku","michi","ro","fpar(","ue","ri","fpar)">>,
      <<"naka","ou","ji","dou","sha","michi","ue","ri">> }

NormalizeInputs == Words(NormalizeFragments, MaxFrags) \cup NormalizeExamples

\* fragments of detect_group's tables, whole and in parts
DetectFragments ==
    { <<"shu","to">>, <<"na","go","ya">>, <<"han","kami">>, <<"hiro","shima">>,
      <<"kita","kyu","shuu">>, <<"fuku","oka">>, <<"higashi","kei">>,
      <<"to","shi">>, <<"kou","soku">>, <<"michi","ro">>,
      <<"ji","dou","sha","michi">>, <<"1","gou","sen">> }

MaxDetectFrags == 4

DetectInputs == Words(DetectFragments, MaxDetectFrags)

(***************************************************************************)
(* The name functions as operations: each is applied once to a name.       *)
(***************************************************************************)
NamesIdle == name = <<>> /\ base_name = Unset /\ urban_group = Unset

GeneralIdle ==
    highway_segment = None /\ core_segments = <<>> /\ nearest_group = Unset

GroupsIdle == highways_info = <<>> /\ highway_geojsons = <<>>

RefIdle ==
    /\ ref_ways = <<>> /\ ref_groups = <<>> /\ display_name = <<>>
    /\ should_split = Unset /\ regrouped = <<>>

SegmentsIdle ==
    /\ segment1 = None /\ segment2 = None
    /\ crossing = Unset /\ segment_distance = Unset

ExtentIdle ==
    extent_coords = <<>> /\ extent_center = TOKYO_STATION /\ extent_segment = Unset

RunIdle ==
    /\ relations = <<>> /\ way_ids_by_name = EmptyDict /\ highway_info = EmptyDict
    /\ highway_names = <<>> /\ targets = <<>> /\ ways_by_id = EmptyDict
    /\ next_target = 1 /\ skipped = {} /\ failed = {}
    /\ index = <<>> /\ group_catalog = <<>> /\ written = {}

InitNormalize ==
    /\ name \in NormalizeInputs
    /\ base_name = Unset
    /\ urban_group = Unset
    /\ GeneralIdle /\ GroupsIdle /\ RunIdle /\ RefIdle /\ ExtentIdle /\ SegmentsIdle /\ pc = "names"

ExtractBaseName ==
    /\ base_name = Unset
    /\ base_name' = _extract_base_name(name)
    /\ UNCHANGED <<segmentVars, extentVars, refVars, name, urban_group, generalVars, groupVars,
                   discoverVars, runVars, pc>>

SpecNormalize == InitNormalize /\ [][ExtractBaseName]_vars

InitDetect ==
    /\ name \in DetectInputs
    /\ base_name = Unset
    /\ urban_group = Unset
    /\ GeneralIdle /\ GroupsIdle /\ RunIdle /\ RefIdle /\ ExtentIdle /\ SegmentsIdle /\ pc = "names"

DetectGroup ==
    /\ urban_group = Unset
    /\ urban_group' = detect_group(name)
    /\ UNCHANGED <<segmentVars, extentVars, refVars, name, base_name, generalVars, groupVars,
                   discoverVars, runVars, pc>>

SpecDetect == InitDetect /\ [][DetectGroup]_vars

(***************************************************************************)
(* Vocabulary of the claims about names, stated without the operators of   *)
(* the code above.                                                         *)
(***************************************************************************)
IsPrefixOf(p, n) == Len(p) <= Len(n) /\ \A i \in 1..Len(p) : n[i] = p[i]

IsSuffixOf(p, n) ==
    Len(p) <= Len(n) /\ \A i \in 1..Len(p) : n[Len(n) - Len(p) + i] = p[i]

Occurs(m, n) ==
    \E t \in 0..(Len(n) - Len(m)) : \A i \in 1..Len(m) : n[t + i] = m[i]

HasLineBreak(n) == \E i \in 1..Len(n) : n[i] = "nl"

ExclusionMarkers ==
    { <<"kou","ka","hashi">>, <<"iri","kuchi">>, <<"de","kuchi">>,
      <<"shin","setsu","ko","ji2">>, <<"kou","ka","ro">>,
      <<"ren","raku","michi","ro">> }

AllowList ==
    { <<"kou","soku">>, <<"ji","dou","sha","michi">>, <<"kei","you","michi","ro">> }

DirectionTokens == {DIRECTIONS[t] : t \in 1..Len(DIRECTIONS)}

HasMarker(n) == \E m \in ExclusionMarkers : Occurs(m, n)

HasAllowed(n) == \E a \in AllowList : Occurs(a, n)

IsCompound(n) == Occurs(<<"sen","-">>, n)

\* the name up to its first parenthesis, of either form
DropParenSuffix(n) ==
    IF \E i \in 1..Len(n) : n[i] \in {"fpar(", "("}
    THEN SubSeq(n, 1, Min({i \in 1..Len(n) : n[i] \in {"fpar(", "("}}) - 1)
    ELSE n

\* the name without the directional token it ends with, if it ends with one
DropTrailingDirection(n) ==
    IF \E d \in DirectionTokens : IsSuffixOf(d, n)
    THEN SubSeq(n, 1, Len(n) - Len(CHOOSE d \in DirectionTokens : IsSuffixOf(d, n)))
    ELSE n

RECURSIVE Trim(_)
Trim(n) ==
    IF n = <<>> THEN n
    ELSE IF Head(n) \in {"sp", "nl"} THEN Trim(Tail(n))
    ELSE IF n[Len(n)] \in {"sp", "nl"} THEN Trim(SubSeq(n, 1, Len(n) - 1))
    ELSE n

Accepted == base_name # Unset /\ base_name # None

(***************************************************************************)
(* C7: every name that contains an exclusion marker (高架橋, 入口, 出口,    *)
(* 新設工事, 高架路, 連絡道路) anywhere, whatever else it contains, is       *)
(* normalized to absence.                                                  *)
(***************************************************************************)
C7_MarkerGivesAbsence ==
    (base_name # Unset /\ HasMarker(name)) => base_name = None

\* a marker in the middle of a name that also holds an allow-list word
C7_Witness ==
    /\ base_name = None
    /\ HasAllowed(name)
    /\ \E m \in ExclusionMarkers :
          Occurs(m, name) /\ ~IsPrefixOf(m, name) /\ ~IsSuffixOf(m, name)

(***************************************************************************)
(* C8: every name that contains the compound-route marker 線- is           *)
(* normalized to absence, also when it contains an allow-list word.        *)
(***************************************************************************)
C8_CompoundGivesAbsence ==
    (base_name # Unset /\ IsCompound(name)) => base_name = None

\* 線- beside an allow-list word, and no exclusion marker to reject the name
C8_Witness ==
    base_name = None /\ IsCompound(name) /\ HasAllowed(name) /\ ~HasMarker(name)

(***************************************************************************)
(* C9: the normalizer returns a base name if and only if the name holds no *)
(* exclusion marker, does not hold 線-, holds an allow-list word and is    *)
(* not empty after the stripping steps; names without an allow-list word   *)
(* are rejected, and the branch-line and tunnel names with digits or a     *)
(* line suffix but without 線- come back unchanged.                        *)
(***************************************************************************)
C9_AcceptedIff ==
    base_name # Unset =>
        /\ base_name # None <=>
              /\ ~HasMarker(name)
              /\ ~IsCompound(name)
              /\ HasAllowed(name)
              /\ strip(SubDirection(SubParen(name))) # <<>>
        /\ ~HasAllowed(name) => base_name = None
        /\ name \in { <<"na","go","ya","dai","ni","wa","jou","ji","dou","sha",
                        "michi","sasa","sen">>,
                      <<"han","kami","kou","soku","3","2","gou","shin","kami",
                        "do","to2","n","ne","ru">> }
              => base_name = name

\* an accepted name with a hyphen and a 線 that do not form 線-
C9_Witness ==
    /\ Accepted
    /\ Occurs(<<"-">>, name)
    /\ Occurs(<<"sen">>, name)
    /\ ~IsCompound(name)

(***************************************************************************)
(* C10 as stated: for every accepted name the result is the name without   *)
(* its parenthetical suffix, then without the directional token at its     *)
(* very end, then trimmed; and for a base b that normalizes to itself,     *)
(* normalize(b + d) = b for each directional token d and                   *)
(* normalize(b + "（" + x + "）") = b for any annotation x.                 *)
(***************************************************************************)
Annotations ==
    { <<>>, <<"ue","ri">>, <<"shita","ri">>, <<"iri","kuchi">>, <<"sen","-">>,
      <<"kou","soku">>, <<"kou","ka","hashi">>, <<"nl">>, <<"sp">>, <<"(">>,
      <<"fpar)">>, <<"soto","mawa","ri","nl","de","kuchi">> }

C10_AsStated ==
    Accepted =>
        /\ base_name = Trim(DropTrailingDirection(DropParenSuffix(name)))
        /\ base_name = name =>
              /\ \A d \in DirectionTokens : _extract_base_name(name \o d) = name
              /\ \A x \in Annotations :
                    _extract_base_name(name \o <<"fpar(">> \o x \o <<"fpar)">>) = name

(***************************************************************************)
(* C10 as amended: the same for names without a line break, and for the    *)
(* annotations x that hold no exclusion marker, no 線- and no line break   *)
(* (the name b + "（" + x + "）" is then an accepted one).                   *)
(***************************************************************************)
C10_StrippedForm ==
    (Accepted /\ ~HasLineBreak(name)) =>
        /\ base_name = Trim(DropTrailingDirection(DropParenSuffix(name)))
        /\ base_name = name =>
              /\ \A d \in DirectionTokens : _extract_base_name(name \o d) = name
              /\ \A x \in Annotations :
                    (~HasMarker(x) /\ ~IsCompound(x) /\ ~HasLineBreak(x)) =>
                        /\ _extract_base_name(name \o <<"fpar(">> \o x \o <<"fpar)">>)
                              = name
                        /\ _extract_base_name(name \o <<"(">> \o x \o <<")">>) = name

\* a name whose parenthetical suffix and whose directional token before it
\* were both removed
C10_Witness ==
    /\ Accepted
    /\ ~HasLineBreak(name)
    /\ \E i \in 1..Len(name) : name[i] \in {"fpar(", "("}
    /\ \E d \in DirectionTokens : IsSuffixOf(d, DropParenSuffix(name))
    /\ Len(base_name) < Len(DropParenSuffix(name))

(***************************************************************************)
(* C5: detect_group(name) is the first matching rule of: the first urban   *)
(* prefix the name starts with; else the group of the first alias it       *)
(* starts with; else the urban prefix whose prefix + 道路 it starts with;   *)
(* else 名古屋高速 if it starts with 名古屋; else absence.  It is absent    *)
(* for the empty name and for 広島自動車道.                                 *)
(***************************************************************************)
FirstPrefix(n) ==
    Min({k \in 1..6 : IsPrefixOf(URBAN_EXPRESSWAY_PREFIXES[k], n)})

FirstAlias(n) ==
    Min({k \in 1..3 : IsPrefixOf(URBAN_EXPRESSWAY_ALIASES[k][1], n)})

FirstRoadPrefix(n) ==
    Min({k \in 1..6 :
            IsPrefixOf(URBAN_EXPRESSWAY_PREFIXES[k] \o <<"michi","ro">>, n)})

C5_FirstMatchWins ==
    urban_group # Unset =>
        /\ CASE \E k \in 1..6 : IsPrefixOf(URBAN_EXPRESSWAY_PREFIXES[k], name) ->
                    urban_group = URBAN_EXPRESSWAY_PREFIXES[FirstPrefix(name)]
             [] \E k \in 1..3 : IsPrefixOf(URBAN_EXPRESSWAY_ALIASES[k][1], name) ->
                    urban_group = URBAN_EXPRESSWAY_ALIASES[FirstAlias(name)][2]
             [] \E k \in 1..6 :
                    IsPrefixOf(URBAN_EXPRESSWAY_PREFIXES[k] \o <<"michi","ro">>, name) ->
                    urban_group = URBAN_EXPRESSWAY_PREFIXES[FirstRoadPrefix(name)]
             [] IsPrefixOf(<<"na","go","ya">>, name) ->
                    urban_group = <<"na","go","ya","kou","soku">>
             [] OTHER -> urban_group = None
        /\ name = <<>> => urban_group = None
        /\ name = <<"hiro","shima","ji","dou","sha","michi">> => urban_group = None

\* a name that only an alias catches, followed by more text
C5_Witness ==
    /\ urban_group = <<"fuku","oka","kou","soku">>
    /\ IsPrefixOf(<<"fuku","oka","to","shi","kou","soku">>, name)
    /\ Len(name) > 6

(***************************************************************************)
(* determine_general_group as an operation, on segments of a small grid    *)
(* and core-segment dicts of at most MaxCores entries.                     *)
(***************************************************************************)
\* the point dx, dy units of 0.0001 degree east and north of Tokyo Station
Pt(dx, dy) == <<TOKYO_STATION[1] + dx, TOKYO_STATION[2] + dy>>

\* a horizontal segment, its two parallels at the same distance, a segment
\* crossing it, a zero-length one and two oblique ones
SegmentChoices ==
    { <<Pt(0, 2), Pt(4, 2)>>, <<Pt(0, 4), Pt(4, 4)>>, <<Pt(0, 0), Pt(4, 0)>>,
      <<Pt(2, 1), Pt(2, 3)>>, <<Pt(3, 3), Pt(3, 3)>>, <<Pt(0, 3), Pt(2, 4)>>,
      <<Pt(1, 0), Pt(3, 1)>> }

\* "東名高速道路", "京葉道路", "道央自動車道" (the 1st, 6th and 10th core
\* highway) and "中央自動車道", which is no core highway
CoreKeyChoices ==
    { CORE_HIGHWAYS[1][1], CORE_HIGHWAYS[6][1], CORE_HIGHWAYS[10][1],
      <<"naka","ou","ji","dou","sha","michi">> }

MaxCores == 2

\* the dicts of at most n entries
RECURSIVE CoreDicts(_)
CoreDicts(n) ==
    IF n = 0 THEN {<<>>}
    ELSE CoreDicts(n - 1) \cup
         { Append(d, <<key, seg>>) :
             d \in {e \in CoreDicts(n - 1) : Len(e) = n - 1},
             key \in CoreKeyChoices, seg \in SegmentChoices }

IsDict(d) == \A i, j \in 1..Len(d) : d[i][1] = d[j][1] => i = j

InitGeneral ==
    /\ highway_segment \in SegmentChoices
    /\ core_segments \in {d \in CoreDicts(MaxCores) : IsDict(d)}
    /\ nearest_group = Unset
    /\ NamesIdle /\ GroupsIdle /\ RunIdle /\ RefIdle /\ ExtentIdle /\ SegmentsIdle /\ pc = "general"

DetermineGeneralGroup ==
    /\ pc = "general"
    /\ nearest_group = Unset
    /\ nearest_group' = determine_general_group(highway_segment, core_segments)
    /\ UNCHANGED <<segmentVars, extentVars, refVars, highway_segment, core_segments, nameVars, groupVars,
                   discoverVars, runVars, pc>>

SpecGeneral == InitGeneral /\ [][DetermineGeneralGroup]_vars

(***************************************************************************)
(* C6: determine_general_group returns the label of the core highway,      *)
(* among the CORE_HIGHWAYS keys present in core_segments, whose segment    *)
(* has the smallest segment_to_segment_distance to the given one; on an    *)
(* exact tie the one listed first in CORE_HIGHWAYS, whatever the insertion *)
(* order of core_segments; with no core segment it returns 東名.            *)
(***************************************************************************)
PresentCores == {k \in 1..10 : \E i \in 1..Len(core_segments) :
                                   core_segments[i][1] = CORE_HIGHWAYS[k][1]}

CoreDistance(k) ==
    LET i == CHOOSE j \in 1..Len(core_segments) :
                 core_segments[j][1] = CORE_HIGHWAYS[k][1]
    IN  segment_to_segment_distance(highway_segment, core_segments[i][2])

C6_NearestCoreFirstListedOnTie ==
    nearest_group # Unset =>
        IF PresentCores = {} THEN nearest_group = <<"higashi","na">>
        ELSE \E k \in PresentCores :
                /\ nearest_group = CORE_HIGHWAYS[k][2]
                /\ \A j \in PresentCores :
                      /\ ~FracLess(CoreDistance(j), CoreDistance(k))
                      /\ j < k => FracLess(CoreDistance(k), CoreDistance(j))

\* two core highways at the same positive distance, the one listed first in
\* CORE_HIGHWAYS inserted last
C6_Witness ==
    /\ nearest_group = CORE_HIGHWAYS[1][2]
    /\ Len(core_segments) = 2
    /\ core_segments[1][1] = CORE_HIGHWAYS[10][1]
    /\ core_segments[2][1] = CORE_HIGHWAYS[1][1]
    /\ CoreDistance(1) = CoreDistance(10)
    /\ FracLess(<<0, 1>>, CoreDistance(1))

(***************************************************************************)
(* assign_groups as an operation, on lists of at most MaxEntries entries   *)
(* and the GeoJSONs of any subset of the names.                            *)
(***************************************************************************)
\* "首都高速1号上野線", "東京高速道路", "東名高速道路", "道央自動車道",
\* "中央自動車道"
SHUTO_UENO == <<"shu","to","kou","soku","1","gou","ue","no","sen">>
TOKYO_KOSOKU == <<"higashi","kei","kou","soku","michi","ro">>
TOMEI == <<"higashi","na","kou","soku","michi","ro">>
DOO == <<"michi","ou","ji","dou","sha","michi">>
CHUO == <<"naka","ou","ji","dou","sha","michi">>

GroupNames == {SHUTO_UENO, TOKYO_KOSOKU, TOMEI, DOO, CHUO}

LineString(cs) == [type |-> "LineString", coordinates |-> cs]

\* no feature; a feature without line coordinates; one line east of the
\* station; two lines north of it; one line south of it; one line whose two
\* points are equally far from the station
GEO_EMPTY == <<>>
GEO_POINT == << [type |-> "Point", coordinates |-> Pt(1, 1)] >>
GEO_EAST == << LineString(<<Pt(1, 0), Pt(3, 0)>>) >>
GEO_NORTH ==
    << [type |-> "MultiLineString",
        coordinates |-> << <<Pt(0, 2), Pt(2, 2)>>, <<Pt(4, 2), Pt(3, 2)>> >>] >>
GEO_SOUTH == << LineString(<<Pt(4, -2), Pt(2, -2)>>), LineString(<<Pt(0, -2), Pt(2, -2)>>) >>
GEO_CROSS == << LineString(<<Pt(2, -1), Pt(2, 1)>>) >>

GeoFor(n) ==
    IF n \in {SHUTO_UENO, TOKYO_KOSOKU} THEN {GEO_EAST}
    ELSE IF n \in {TOMEI, DOO} THEN {GEO_EMPTY, GEO_NORTH, GEO_SOUTH}
    ELSE {GEO_EMPTY, GEO_POINT, GEO_EAST, GEO_CROSS}

GeojsonMaps ==
    UNION { {g \in [S -> {GEO_EMPTY, GEO_POINT, GEO_EAST, GEO_NORTH, GEO_SOUTH,
                          GEO_CROSS}] : \A n \in S : g[n] \in GeoFor(n)} :
            S \in SUBSET GroupNames }

MaxEntries == 2

InitGroups ==
    /\ highways_info \in
          UNION { [1..k -> {[name |-> n, group |-> Unset] : n \in GroupNames}] :
                  k \in 0..MaxEntries }
    /\ highway_geojsons \in GeojsonMaps
    /\ NamesIdle /\ GeneralIdle /\ RunIdle /\ RefIdle /\ ExtentIdle /\ SegmentsIdle /\ pc = "groups"

AssignGroups ==
    /\ pc = "groups"
    /\ highways_info' = assign_groups(highways_info, highway_geojsons)
    /\ pc' = "grouped"
    /\ UNCHANGED <<segmentVars, extentVars, refVars, highway_geojsons, nameVars, generalVars,
                   discoverVars, runVars>>

SpecGroups == InitGroups /\ [][AssignGroups]_vars

(***************************************************************************)
(* C3: after assign_groups every entry carries one group, and that group   *)
(* is one of the 16 names of GROUP_ORDER.                                  *)
(***************************************************************************)
C3_GroupIsTotal ==
    pc = "grouped" =>
        /\ Len(GROUP_ORDER) = 16
        /\ \A i \in 1..Len(highways_info) :
              \E k \in 1..16 : highways_info[i].group = GROUP_ORDER[k]

HasCoordinates(n) ==
    /\ n \in DOMAIN highway_geojsons
    /\ \E f \in 1..Len(highway_geojsons[n]) :
          /\ highway_geojsons[n][f].type \in {"LineString", "MultiLineString"}
          /\ highway_geojsons[n][f].coordinates # <<>>

\* a general highway without coordinates beside an urban one, in a batch
\* that holds no core segment
C3_Witness ==
    /\ pc = "grouped"
    /\ Len(highways_info) = 2
    /\ highways_info[1].name = CHUO
    /\ ~HasCoordinates(CHUO)
    /\ highways_info[2].name = TOKYO_KOSOKU
    /\ \A k \in 1..10 : ~HasCoordinates(CORE_HIGHWAYS[k][1])

(***************************************************************************)
(* C4: assign_groups gives every entry the group of the first rule that    *)
(* applies: (1) detect_group(name), when it is not absent; (2) the         *)
(* corridor label of the name, when it is a key of CORE_HIGHWAYS; (3)      *)
(* determine_general_group's result, when the entry has an extent segment  *)
(* and at least one core segment exists; (4) the default 東名.              *)
(***************************************************************************)
ExtentOf(n) == get_extent_segment(get_all_coordinates(highway_geojsons[n]), TOKYO_STATION)

CoreSegmentsOfBatch ==
    LET present == {k \in 1..10 : HasCoordinates(CORE_HIGHWAYS[k][1])}
        RECURSIVE build(_)
        build(k) ==
            IF k > 10 THEN <<>>
            ELSE IF k \in present
            THEN << <<CORE_HIGHWAYS[k][1], ExtentOf(CORE_HIGHWAYS[k][1])>> >> \o build(k + 1)
            ELSE build(k + 1)
    IN  build(1)

C4_RulePrecedence ==
    pc = "grouped" =>
        \A i \in 1..Len(highways_info) :
            LET n == highways_info[i].name
                g == highways_info[i].group
            IN  CASE detect_group(n) # None -> g = detect_group(n)
                  [] \E k \in 1..10 : CORE_HIGHWAYS[k][1] = n ->
                        \E k \in 1..10 : CORE_HIGHWAYS[k][1] = n /\ g = CORE_HIGHWAYS[k][2]
                  [] HasCoordinates(n) /\ CoreSegmentsOfBatch # <<>> ->
                        g = determine_general_group(ExtentOf(n), CoreSegmentsOfBatch)
                  [] OTHER -> g = <<"higashi","na">>

\* a core highway that rule (2) names, though rule (3) would place it in
\* another corridor, beside a general highway that rule (3) places
C4_Witness ==
    /\ pc = "grouped"
    /\ Len(highways_info) = 2
    /\ highways_info[1].name = DOO
    /\ highways_info[1].group = CORE_HIGHWAYS[10][2]
    /\ HasCoordinates(DOO)
    /\ determine_general_group(ExtentOf(DOO), CoreSegmentsOfBatch) # CORE_HIGHWAYS[10][2]
    /\ highways_info[2].name = CHUO
    /\ HasCoordinates(CHUO)
    /\ highways_info[2].group = CORE_HIGHWAYS[1][2]

(***************************************************************************)
(* osm_parser.py: HighwayDiscoverer.relation and discover_highways.  A     *)
(* relation is the record of its tags (a dict: tag key -> string) and its  *)
(* members (type and ref).                                                 *)
(***************************************************************************)
\* tags.get(key, default)
TagGet(tags, key, default) == IF key \in DOMAIN tags THEN tags[key] ELSE default

\* d with d[key] = value added or replaced
DictPut(d, key, value) ==
    [k \in DOMAIN d \cup {key} |-> IF k = key THEN value ELSE d[k]]

\* mutant: the route tag is not tested
IsRoadRoute_AnyRoute(tags) == TRUE

\* tags.get("route") != "road", negated
IsRoadRoute(tags) == TagGet(tags, "route", None) = <<"road">>

\* mutant: a supplied value is appended to the accumulated one
FillBlank_Accumulate(current, supplied) == current \o supplied

\* mutant: a supplied value replaces the accumulated one
FillBlank_LastWins(current, supplied) ==
    IF supplied # <<>> THEN supplied ELSE current

\* the field after "if not info[field] and tags.get(key): info[field] = ..."
FillBlank(current, supplied) ==
    IF current = <<>> /\ supplied # <<>> THEN supplied ELSE current

\* mutant: the relation's ways replace the set instead of joining it
relation_Replace(ids, info, r) ==
    LET tags == r.tags
        nm == TagGet(tags, "name", <<>>)
        b == _extract_base_name(nm)
        name_en == TagGet(tags, "name:en", <<>>)
        ref == TagGet(tags, "ref", <<>>)
        ids1 == IF b \in DOMAIN ids THEN ids ELSE DictPut(ids, b, {})
        info1 == IF b \in DOMAIN ids THEN info
                 ELSE DictPut(info, b, [name |-> b, name_en |-> name_en, ref |-> ref])
        ids2 == [ids1 EXCEPT ![b] =
                    {r.members[i].ref :
                       i \in {j \in 1..Len(r.members) : r.members[j].type = "w"}}]
        info2 == [info1 EXCEPT ![b].name_en = FillBlank(@, name_en)]
        info3 == [info2 EXCEPT ![b].ref = FillBlank(@, ref)]
    IN  IF ~IsRoadRoute(tags) THEN <<ids, info>>
        ELSE IF nm = <<>> THEN <<ids, info>>
        ELSE IF b = None THEN <<ids, info>>
        ELSE <<ids2, info3>>

\* mutant: "name": name, the relation's own name
relation_RawName(ids, info, r) ==
    LET tags == r.tags
        nm == TagGet(tags, "name", <<>>)
        b == _extract_base_name(nm)
        name_en == TagGet(tags, "name:en", <<>>)
        ref == TagGet(tags, "ref", <<>>)
        ids1 == IF b \in DOMAIN ids THEN ids ELSE DictPut(ids, b, {})
        info1 == IF b \in DOMAIN ids THEN info
                 ELSE DictPut(info, b, [name |-> nm, name_en |-> name_en, ref |-> ref])
        ids2 == [ids1 EXCEPT ![b] =
                    @ \cup {r.members[i].ref :
                              i \in {j \in 1..Len(r.members) : r.members[j].type = "w"}}]
        info2 == [info1 EXCEPT ![b].name_en = FillBlank(@, name_en)]
        info3 == [info2 EXCEPT ![b].ref = FillBlank(@, ref)]
    IN  IF ~IsRoadRoute(tags) THEN <<ids, info>>
        ELSE IF nm = <<>> THEN <<ids, info>>
        ELSE IF b = None THEN <<ids, info>>
        ELSE <<ids2, info3>>

\* the handler's two dicts <<way_ids_by_name, highway_info>> after relation(r)
relation(ids, info, r) ==
    LET tags == r.tags
        nm == TagGet(tags, "name", <<>>)
        b == _extract_base_name(nm)
        name_en == TagGet(tags, "name:en", <<>>)
        ref == TagGet(tags, "ref", <<>>)
        ids1 == IF b \in DOMAIN ids THEN ids ELSE DictPut(ids, b, {})
        info1 == IF b \in DOMAIN ids THEN info
                 ELSE DictPut(info, b, [name |-> b, name_en |-> name_en, ref |-> ref])
        ids2 == [ids1 EXCEPT ![b] =
                    @ \cup {r.members[i].ref :
                              i \in {j \in 1..Len(r.members) : r.members[j].type = "w"}}]
        info2 == [info1 EXCEPT ![b].name_en = FillBlank(@, name_en)]
        info3 == [info2 EXCEPT ![b].ref = FillBlank(@, ref)]
    IN  IF ~IsRoadRoute(tags) THEN <<ids, info>>
        ELSE IF nm = <<>> THEN <<ids, info>>
        ELSE IF b = None THEN <<ids, info>>
        ELSE <<ids2, info3>>

\* ord(ch) for the characters of the base names the relations below give
CodePoint ==
    [ch \in {"shu","to","kou","soku","1","gou","ue","no","sen","higashi","na",
             "michi","ro","naka","ou","ji","dou","sha"} |->
        CASE ch = "shu" -> 39318 [] ch = "to" -> 37117 [] ch = "kou" -> 39640
          [] ch = "soku" -> 36895 [] ch = "1" -> 49 [] ch = "gou" -> 21495
          [] ch = "ue" -> 19978 [] ch = "no" -> 37326 [] ch = "sen" -> 32218
          [] ch = "higashi" -> 26481 [] ch = "na" -> 21517
          [] ch = "michi" -> 36947 [] ch = "ro" -> 36335 [] ch = "naka" -> 20013
          [] ch = "ou" -> 22830 [] ch = "ji" -> 33258 [] ch = "dou" -> 21205
          [] ch = "sha" -> 36554]

\* a < b for str
RECURSIVE StrLess(_, _)
StrLess(a, b) ==
    IF b = <<>> THEN FALSE
    ELSE IF a = <<>> THEN TRUE
    ELSE IF CodePoint[Head(a)] # CodePoint[Head(b)]
    THEN CodePoint[Head(a)] < CodePoint[Head(b)]
    ELSE StrLess(Tail(a), Tail(b))

\* mutant: sorted(keys, reverse=True)
RECURSIVE Sorted_Reverse(_)
Sorted_Reverse(keys) ==
    IF keys = {} THEN <<>>
    ELSE LET first == CHOOSE a \in keys : \A b \in keys \ {a} : StrLess(b, a)
         IN  <<first>> \o Sorted_Reverse(keys \ {first})

\* sorted(keys)
RECURSIVE Sorted(_)
Sorted(keys) ==
    IF keys = {} THEN <<>>
    ELSE LET first == CHOOSE a \in keys : \A b \in keys \ {a} : StrLess(a, b)
         IN  <<first>> \o Sorted(keys \ {first})

\* the list discover_highways returns
discover_highways(ids, info) ==
    LET names == Sorted(DOMAIN info)
    IN  [i \in 1..Len(names) |->
            [name |-> info[names[i]].name, name_en |-> info[names[i]].name_en,
             ref |-> info[names[i]].ref, way_count |-> Cardinality(ids[names[i]])]]

(***************************************************************************)
(* osm_parser.py: get_ways_for_highway; highway.py: extract_highway;       *)
(* main.py: generate_groups.  A Python value whose type matters carries    *)
(* its kind; the result of a call that can raise carries whether it did.   *)
(***************************************************************************)
PyDict(d) == [kind |-> "dict", items |-> d]
PyList(l) == [kind |-> "list", items |-> l]

Returned(v) == [raised |-> FALSE, value |-> v]
Raised == [raised |-> TRUE, value |-> <<>>]

\* v[key] for a str key: TypeError on a list, KeyError on a missing key
GetItem(v, key) ==
    IF v.kind = "dict" /\ key \in DOMAIN v.items THEN Returned(v.items[key])
    ELSE Raised

\* the ids in ascending order (the iteration order of a set of small ints)
RECURSIVE Ascending(_)
Ascending(S) ==
    IF S = {} THEN <<>> ELSE <<Min(S)>> \o Ascending(S \ {Min(S)})

get_ways_for_highway(ways, way_ids) ==
    LET found == Ascending(way_ids \cap DOMAIN ways)
    IN  [i \in 1..Len(found) |-> ways[found[i]]]

\* highway.py imports filter_by_name from osm_parser, which defines no such
\* name: there is nothing to call
filter_by_name(all_ways, query_name) == Raised

\* extract_highway(all_ways, highway_config): the three subscripts of
\* highway_config come first, then filter_by_name
extract_highway(all_ways, highway_config) ==
    LET nm == GetItem(highway_config, "name")
        highway_id == GetItem(highway_config, "id")
        query_name == GetItem(highway_config, "query_name")
    IN  IF nm.raised \/ highway_id.raised \/ query_name.raised THEN Raised
        ELSE filter_by_name(all_ways, query_name.value)

\* mutant: enumerate(GROUP_ORDER, 1)
generate_groups_FromOne ==
    [i \in 1..Len(GROUP_ORDER) |->
        [name |-> GROUP_ORDER[i],
         type |-> IF \E k \in 1..Len(URBAN_EXPRESSWAY_PREFIXES) :
                        URBAN_EXPRESSWAY_PREFIXES[k] = GROUP_ORDER[i]
                  THEN "urban" ELSE "general",
         order |-> i]]

\* the list generate_groups writes
generate_groups ==
    [i \in 1..Len(GROUP_ORDER) |->
        [name |-> GROUP_ORDER[i],
         type |-> IF \E k \in 1..Len(URBAN_EXPRESSWAY_PREFIXES) :
                        URBAN_EXPRESSWAY_PREFIXES[k] = GROUP_ORDER[i]
                  THEN "urban" ELSE "general",
         order |-> i - 1]]

(***************************************************************************)
(* The batch run generate_highways: the relations of the PBF file reach    *)
(* the discoverer one by one, then the targets are chosen, their ways are  *)
(* read, each target is extracted, and the groups and the index are        *)
(* written.                                                                *)
(***************************************************************************)
MaxRelations == 3

Way(id) == [type |-> "w", ref |-> id]
Node(id) == [type |-> "n", ref |-> id]

Tags(route, nm, name_en, ref) ==
    LET given == {k \in {"route", "name", "name:en", "ref"} :
                    (CASE k = "route" -> route [] k = "name" -> nm
                       [] k = "name:en" -> name_en [] k = "ref" -> ref) # None}
    IN  [k \in given |-> CASE k = "route" -> route [] k = "name" -> nm
                           [] k = "name:en" -> name_en [] k = "ref" -> ref]

ROAD == <<"road">>

\* the relation of 首都高速1号上野線 with two ways; 東名高速道路（上り） with a
\* ref and a node member; 東名高速道路 with an English name and another ref;
\* a bus route; a road without name; an entrance; 中央自動車道 without
\* members; 中央自動車道上り
RelationChoices ==
    { [tags |-> Tags(ROAD, SHUTO_UENO, None, None), members |-> <<Way(1), Way(2)>>],
      [tags |-> Tags(ROAD, TOMEI \o <<"fpar(","ue","ri","fpar)">>, <<>>, <<"E1">>),
       members |-> <<Way(3), Node(1)>>],
      [tags |-> Tags(ROAD, TOMEI, <<"Tomei">>, <<"E1A">>),
       members |-> <<Way(3), Way(4)>>],
      [tags |-> Tags(<<"bus">>, CHUO, None, None), members |-> <<Way(5)>>],
      [tags |-> Tags(ROAD, None, <<"Chuo">>, None), members |-> <<Way(5)>>],
      [tags |-> Tags(ROAD, TOMEI \o <<"iri","kuchi">>, None, None),
       members |-> <<Way(5)>>],
      [tags |-> Tags(ROAD, CHUO, None, None), members |-> <<>>],
      [tags |-> Tags(ROAD, CHUO \o <<"ue","ri">>, <<"Chuo">>, <<"E20">>),
       members |-> <<Way(5)>>] }

\* no filter; "上野"; "高速"; "九州" (which no discovered name contains)
FilterChoices ==
    { <<>>, << <<"ue","no">> >>, << <<"kou","soku">> >>, << <<"kyu","shuu">> >> }

\* the valid node locations a way of the file has: one or two
NodeChoices == { <<Pt(1, 0)>>, <<Pt(1, 0), Pt(3, 0)>> }

InitRun ==
    /\ relations = <<>>
    /\ way_ids_by_name = EmptyDict /\ highway_info = EmptyDict
    /\ highway_names \in FilterChoices
    /\ targets = <<>> /\ ways_by_id = EmptyDict /\ next_target = 1
    /\ skipped = {} /\ failed = {}
    /\ index = <<>> /\ group_catalog = <<>> /\ written = {}
    /\ NamesIdle /\ GeneralIdle /\ GroupsIdle /\ RefIdle /\ ExtentIdle /\ SegmentsIdle /\ pc = "discover"

\* HighwayDiscoverer.relation, called for the next relation of the file
Relation ==
    /\ pc = "discover"
    /\ Len(relations) < MaxRelations
    /\ \E r \in RelationChoices :
          /\ relations' = Append(relations, r)
          /\ way_ids_by_name' = relation(way_ids_by_name, highway_info, r)[1]
          /\ highway_info' = relation(way_ids_by_name, highway_info, r)[2]
    /\ UNCHANGED <<segmentVars, extentVars, refVars, nameVars, generalVars, groupVars, runVars, pc>>

\* main.py:364-381: the discovered list and the targets among it
SelectTargets ==
    /\ pc = "discover"
    /\ LET discovered == discover_highways(way_ids_by_name, highway_info)
           wanted(h) == \E i \in 1..Len(highway_names) :
                            Contains(h.name, highway_names[i])
       IN  IF highway_names # <<>>
           THEN /\ targets' = SelectSeq(discovered, wanted)
                /\ pc' = IF targets' = <<>> THEN "done" ELSE "extract"
           ELSE /\ targets' = discovered
                /\ pc' = "extract"
    /\ UNCHANGED <<segmentVars, extentVars, refVars, nameVars, generalVars, groupVars, discoverVars, highway_names,
                   ways_by_id, next_target, skipped, failed, index,
                   group_catalog, written>>

\* main.py:383-387: the way ids of all targets
AllWayIds ==
    UNION { IF targets[i].name \in DOMAIN way_ids_by_name
            THEN way_ids_by_name[targets[i].name] ELSE {} : i \in 1..Len(targets) }

\* extract_all_ways: BulkWayCollector.way keeps the wanted ways that have at
\* least two valid node locations
ExtractAllWays ==
    /\ pc = "extract"
    /\ \E nodes \in [AllWayIds -> NodeChoices] :
          ways_by_id' =
              [w \in {v \in AllWayIds : Len(nodes[v]) >= 2} |->
                  [id |-> w, tags |-> [highway |-> <<"motorway">>],
                   coordinates |-> nodes[w]]]
    /\ pc' = "loop"
    /\ UNCHANGED <<segmentVars, extentVars, refVars, nameVars, generalVars, groupVars, discoverVars, highway_names,
                   targets, next_target, skipped, failed, index, group_catalog,
                   written>>

\* main.py:389-425: one pass of the loop over targets.  The call of line 399
\* hands the highway's dict as all_ways and the list of ways as
\* highway_config.
GenerateHighway ==
    /\ pc = "loop"
    /\ next_target <= Len(targets)
    /\ LET highway == targets[next_target]
           nm == highway.name
           way_ids == IF nm \in DOMAIN way_ids_by_name
                      THEN way_ids_by_name[nm] ELSE {}
           ways == get_ways_for_highway(ways_by_id, way_ids)
           geojson == extract_highway(PyDict(highway), PyList(ways))
           entry == [id |-> nm, name |-> nm, nameEn |-> highway.name_en,
                     ref |-> highway.ref, group |-> Unset]
       IN  IF geojson.raised
           THEN /\ failed' = failed \cup {nm}
                /\ UNCHANGED <<segmentVars, extentVars, refVars, skipped, highways_info, highway_geojsons>>
           ELSE IF get_all_coordinates(geojson.value) = <<>>
           THEN /\ skipped' = skipped \cup {nm}
                /\ UNCHANGED <<segmentVars, extentVars, refVars, failed, highways_info, highway_geojsons>>
           ELSE /\ highways_info' = Append(highways_info, entry)
                /\ highway_geojsons' = DictPut(highway_geojsons, nm, geojson.value)
                /\ UNCHANGED <<segmentVars, extentVars, refVars, skipped, failed>>
    /\ next_target' = next_target + 1
    /\ UNCHANGED <<segmentVars, extentVars, refVars, nameVars, generalVars, discoverVars, highway_names, targets,
                   ways_by_id, index, group_catalog, written, pc>>

\* main.py:427-435: assign_groups, generate_index and generate_groups
WriteIndex ==
    /\ pc = "loop"
    /\ next_target > Len(targets)
    /\ highways_info' = assign_groups(highways_info, highway_geojsons)
    /\ index' = highways_info'
    /\ group_catalog' = generate_groups
    /\ written' = {"index.json", "group.json"}
    /\ pc' = "done"
    /\ UNCHANGED <<segmentVars, extentVars, refVars, nameVars, generalVars, highway_geojsons, discoverVars,
                   highway_names, targets, ways_by_id, next_target, skipped,
                   failed>>

Init == InitRun

Next ==
    \/ Relation
    \/ SelectTargets
    \/ ExtractAllWays
    \/ GenerateHighway
    \/ WriteIndex

Spec == Init /\ [][Next]_vars

(***************************************************************************)
(* C1: when the file holds exactly one relation, named 首都高速1号上野線    *)
(* with route=road and two way members, and both ways are read with two    *)
(* valid points each, the finished run has written an index of exactly one *)
(* entry, named 首都高速1号上野線 and grouped 首都高速.                     *)
(***************************************************************************)
UenoRelation ==
    [tags |-> Tags(ROAD, SHUTO_UENO, None, None), members |-> <<Way(1), Way(2)>>]

UenoRun ==
    /\ pc = "done"
    /\ relations = <<UenoRelation>>
    /\ DOMAIN ways_by_id = {1, 2}
    /\ \A w \in DOMAIN ways_by_id : Len(ways_by_id[w].coordinates) >= 2

C1_AsStated ==
    UenoRun =>
        /\ "index.json" \in written
        /\ Len(index) = 1
        /\ index[1].name = SHUTO_UENO
        /\ index[1].group = URBAN_EXPRESSWAY_PREFIXES[1]

(***************************************************************************)
(* C2: when generate_highways has finished, every entry of the index has   *)
(* coordinates and a group of the catalog; a target whose ways give no     *)
(* coordinate has no entry and was dropped by the skip of main.py:403-405  *)
(* (a warning, no exception); and every target has been handled: it is in  *)
(* the index, skipped or reported as failed.                               *)
(***************************************************************************)
\* the coordinates of the ways found for the highway named n
ExtractedCoordinates(n) ==
    LET ways == get_ways_for_highway(ways_by_id, way_ids_by_name[n])
    IN  Concat([i \in 1..Len(ways) |-> ways[i].coordinates])

IndexNames == {index[i].name : i \in 1..Len(index)}

QualifyingChoices ==
    {r \in RelationChoices :
        /\ "route" \in DOMAIN r.tags /\ r.tags["route"] = ROAD
        /\ "name" \in DOMAIN r.tags /\ r.tags["name"] # <<>>
        /\ _extract_base_name(r.tags["name"]) # None}

BaseNameOf == [r \in QualifyingChoices |-> _extract_base_name(r.tags["name"])]

Qualifies(r) == r \in QualifyingChoices

BaseOf(r) == BaseNameOf[r]

\* the value the relation supplies for a tag (blank when it has none)
Supplied(r, key) == IF key \in DOMAIN r.tags THEN r.tags[key] ELSE <<>>

\* a Relation step has just processed a relation
Processed == Len(relations') = Len(relations) + 1

LastRelation == relations[Len(relations)]

(***************************************************************************)
(* C11: processing the relation that was processed just before once more   *)
(* changes neither way_ids_by_name nor highway_info (so no way id is       *)
(* collected twice, and no metadata grows).                                *)
(***************************************************************************)
C11_SecondPassChangesNothing ==
    [][(Processed /\ relations # <<>> /\ relations'[Len(relations')] = LastRelation)
          => /\ way_ids_by_name' = way_ids_by_name
             /\ highway_info' = highway_info]_vars

\* a qualifying relation with way members and a ref was processed twice in
\* a row, after another relation had filled the collector
C11_Witness ==
    /\ Len(relations) = 3
    /\ relations[3] = relations[2]
    /\ Qualifies(relations[1]) /\ Qualifies(relations[3])
    /\ BaseOf(relations[1]) # BaseOf(relations[3])
    /\ way_ids_by_name[BaseOf(relations[3])] # {}
    /\ Supplied(relations[3], "ref") # <<>>

(***************************************************************************)
(* C12: for every collected base name, name_en and ref hold the value of   *)
(* the first processed relation of that base name that supplies a          *)
(* non-blank one (blank when none does), and a non-blank field is never    *)
(* changed by a later step.                                                *)
(***************************************************************************)
\* the positions of the relations of base name b that supply the tag
Suppliers(b, key) ==
    {i \in 1..Len(relations) :
        /\ Qualifies(relations[i])
        /\ BaseOf(relations[i]) = b
        /\ Supplied(relations[i], key) # <<>>}

FirstSupplied(b, key) ==
    IF Suppliers(b, key) = {} THEN <<>>
    ELSE Supplied(relations[Min(Suppliers(b, key))], key)

FirstNonBlankHeld ==
    \A b \in DOMAIN highway_info :
        /\ highway_info[b].name_en = FirstSupplied(b, "name:en")
        /\ highway_info[b].ref = FirstSupplied(b, "ref")

NonBlankKept ==
    \A b \in DOMAIN highway_info :
        /\ highway_info[b].name_en # <<>> =>
              highway_info'[b].name_en = highway_info[b].name_en
        /\ highway_info[b].ref # <<>> => highway_info'[b].ref = highway_info[b].ref

C12_FirstNonBlankWins == [](FirstNonBlankHeld) /\ [][NonBlankKept]_vars

\* two relations of one base name supplied different refs, and the first
\* of them supplied no English name
C12_Witness ==
    \E i, j \in 1..Len(relations) :
        /\ i < j
        /\ Qualifies(relations[i]) /\ Qualifies(relations[j])
        /\ BaseOf(relations[i]) = BaseOf(relations[j])
        /\ Supplied(relations[i], "ref") # <<>>
        /\ Supplied(relations[j], "ref") # <<>>
        /\ Supplied(relations[i], "ref") # Supplied(relations[j], "ref")
        /\ Supplied(relations[i], "name:en") = <<>>
        /\ Supplied(relations[j], "name:en") # <<>>
        /\ highway_info[BaseOf(relations[i])].ref = Supplied(relations[i], "ref")
        /\ highway_info[BaseOf(relations[i])].name_en
              = Supplied(relations[j], "name:en")

(***************************************************************************)
(* C13: a step that processes a relation which does not qualify (route is  *)
(* not "road", no or empty name, or a name that normalizes to absence)     *)
(* leaves way_ids_by_name and highway_info as they were: no base name is   *)
(* added and nothing is recorded for an existing one.                      *)
(***************************************************************************)
C13_UnqualifiedIsSkipped ==
    [][(Processed /\ ~Qualifies(relations'[Len(relations')]))
          => /\ way_ids_by_name' = way_ids_by_name
             /\ highway_info' = highway_info]_vars

\* after a qualifying relation, a relation of another route type and a road
\* whose name normalizes to absence were processed, both naming ways
C13_Witness ==
    /\ Len(relations) = 3
    /\ Qualifies(relations[1])
    /\ Supplied(relations[2], "route") # ROAD
    /\ relations[2].members # <<>>
    /\ Supplied(relations[3], "route") = ROAD
    /\ Supplied(relations[3], "name") # <<>>
    /\ ~Qualifies(relations[3])
    /\ relations[3].members # <<>>
    /\ DOMAIN way_ids_by_name = {BaseOf(relations[1])}
    /\ DOMAIN highway_info = {BaseOf(relations[1])}

(***************************************************************************)
(* The ref splitter: is_national_route_ref, should_split_by_ref and        *)
(* group_ways_by_ref.  main.py's tests import the three functions, main.py *)
(* itself does not hold them; they are written here from the repository's  *)
(* description of them.  A ref is the sequence of its characters; the dict *)
(* ref -> ways is a sequence of <<ref, ways>> with distinct refs, in       *)
(* insertion order.                                                        *)
(***************************************************************************)
Digits == {"0", "1", "2", "3", "4", "5", "6", "7", "8", "9"}

\* mutant: no ref is taken for a national route
is_national_route_ref_Never(ref) == FALSE

\* a ref of decimal digits only ("4", "152"); the empty ref is none
is_national_route_ref(ref) ==
    ref # <<>> /\ \A i \in 1..Len(ref) : ref[i] \in Digits

\* the ref counts towards the tally of distinct refs
CountsAsRef(ref, urban) == ref # <<>> /\ (urban \/ ~is_national_route_ref(ref))

\* the tally over the dict's keys
RECURSIVE CountRefs(_, _)
CountRefs(groups, urban) ==
    IF groups = <<>> THEN 0
    ELSE (IF CountsAsRef(Head(groups)[1], urban) THEN 1 ELSE 0)
             + CountRefs(Tail(groups), urban)

should_split_by_ref(groups, highway_name) ==
    CountRefs(groups, detect_group(highway_name) # None) >= 2

(***************************************************************************)
(* should_split_by_ref as an operation, on the dicts of at most MaxRefs    *)
(* refs (their lists of ways are not read).                                *)
(***************************************************************************)
MaxRefs == 3

\* "", "E19", "E20", "E1A", "4", "1", "2"
RefChoices ==
    { <<>>, <<"E","1","9">>, <<"E","2","0">>, <<"E","1","A">>, <<"4">>, <<"1">>,
      <<"2">> }

\* "中央自動車道", "首都高速1号上野線", "東京高速道路"
SplitNameChoices == {CHUO, SHUTO_UENO, TOKYO_KOSOKU}

RefDicts ==
    UNION { {d \in [1..k -> {<<ref, <<>> >> : ref \in RefChoices}] : IsDict(d)} :
            k \in 0..MaxRefs }

InitSplit ==
    /\ ref_groups \in RefDicts
    /\ display_name \in SplitNameChoices
    /\ ref_ways = <<>> /\ should_split = Unset /\ regrouped = <<>>
    /\ NamesIdle /\ GeneralIdle /\ GroupsIdle /\ RunIdle /\ ExtentIdle /\ SegmentsIdle /\ pc = "split"

ShouldSplitByRef ==
    /\ pc = "split"
    /\ should_split' = should_split_by_ref(ref_groups, display_name)
    /\ pc' = "decided"
    /\ UNCHANGED <<segmentVars, extentVars, ref_ways, ref_groups, display_name, regrouped, nameVars,
                   generalVars, groupVars, discoverVars, runVars>>

SpecSplit == InitSplit /\ [][ShouldSplitByRef]_vars

(***************************************************************************)
(* C14: should_split_by_ref is true exactly when at least two distinct     *)
(* refs count, where the empty ref never counts, every other ref counts    *)
(* for a name detect_group places in an urban group, and only the refs     *)
(* that are not made of digits alone count for any other name.             *)
(***************************************************************************)
DigitsOnly(ref) == ref # <<>> /\ {ref[i] : i \in 1..Len(ref)} \subseteq Digits

CountableRefs ==
    {ref \in {ref_groups[i][1] : i \in 1..Len(ref_groups)} :
        /\ ref # <<>>
        /\ detect_group(display_name) = None => ~DigitsOnly(ref)}

C14_SplitIffTwoCountableRefs ==
    pc = "decided" => (should_split <=> Cardinality(CountableRefs) >= 2)

\* {"E20": [], "4": []} for 中央自動車道 is not split
C14_Witness ==
    /\ pc = "decided"
    /\ display_name = CHUO
    /\ ref_groups = << <<<<"E","2","0">>, <<>> >>, <<<<"4">>, <<>> >> >>
    /\ should_split = FALSE

(***************************************************************************)
(* group_ways_by_ref: the ways are first put in buckets by effective ref,  *)
(* then each way of the empty-ref bucket is merged, in list order, into    *)
(* the nearest other bucket as that bucket stands; without any other       *)
(* bucket the ways stay where they are.                                    *)
(***************************************************************************)
\* mutant: ref.rsplit(";", 1)[0], all but the last component
FirstComponent_DropLast(ref) ==
    LET semis == {i \in 1..Len(ref) : ref[i] = ";"}
    IN  IF semis = {} THEN ref
        ELSE SubSeq(ref, 1, (CHOOSE m \in semis : \A k \in semis : k <= m) - 1)

\* ref.split(";")[0]
FirstComponent(ref) ==
    LET semis == {i \in 1..Len(ref) : ref[i] = ";"}
    IN  IF semis = {} THEN ref ELSE SubSeq(ref, 1, Min(semis) - 1)

\* the way's effective ref
EffectiveRef(way) == FirstComponent(TagGet(way.tags, "ref", <<>>))

\* groups with the way appended to the bucket of key (a new last bucket when
\* the key is new)
BucketAppend(groups, key, way) ==
    IF DictHas(groups, key)
    THEN [i \in 1..Len(groups) |->
            IF groups[i][1] = key THEN <<key, Append(groups[i][2], way)>>
            ELSE groups[i]]
    ELSE Append(groups, <<key, <<way>> >>)

RECURSIVE Bucketize(_, _)
Bucketize(ws, groups) ==
    IF ws = <<>> THEN groups
    ELSE Bucketize(Tail(ws), BucketAppend(groups, EffectiveRef(Head(ws)), Head(ws)))

\* the coordinates of a list of ways, as a set
CoordinateSet(ws) ==
    UNION { {ws[i].coordinates[j] : j \in 1..Len(ws[i].coordinates)} :
            i \in 1..Len(ws) }

\* the least squared distance between a coordinate of the way and one of ws
WayDistance(way, ws) ==
    Min({distance_squared(p, q) : p \in CoordinateSet(<<way>>), q \in CoordinateSet(ws)})

\* mutant: the farthest bucket
NearestRef_Farthest(way, groups) ==
    LET far == {i \in 1..Len(groups) :
                  \A k \in 1..Len(groups) :
                      WayDistance(way, groups[k][2]) <= WayDistance(way, groups[i][2])}
    IN  groups[Min(far)][1]

\* the ref of the nearest bucket, the first of them in the dict's order
NearestRef(way, groups) ==
    LET near == {i \in 1..Len(groups) :
                   \A k \in 1..Len(groups) :
                       WayDistance(way, groups[i][2]) <= WayDistance(way, groups[k][2])}
    IN  groups[Min(near)][1]

RECURSIVE MergeBlank(_, _)
MergeBlank(blank, groups) ==
    IF blank = <<>> THEN groups
    ELSE MergeBlank(Tail(blank),
                    BucketAppend(groups, NearestRef(Head(blank), groups), Head(blank)))

IsRefBucket(bucket) == bucket[1] # <<>>

group_ways_by_ref(ws) ==
    LET groups == Bucketize(ws, <<>>)
        with_ref == SelectSeq(groups, IsRefBucket)
    IN  IF DictHas(groups, <<>>) /\ with_ref # <<>>
        THEN MergeBlank(DictGet(groups, <<>>), with_ref)
        ELSE groups

(***************************************************************************)
(* group_ways_by_ref as an operation, on the lists of at most MaxWays      *)
(* ways, and once more on its own result with every way given the ref of   *)
(* its bucket.                                                             *)
(***************************************************************************)
MaxWays == 3

\* no ref tag, "E19", "E20", "E19;E20;E1A"
RefTagChoices ==
    { None, <<"E","1","9">>, <<"E","2","0">>,
      <<"E","1","9",";","E","2","0",";","E","1","A">> }

\* four stretches along one line, at unequal gaps
CoordinateChoices ==
    { << <<0, 0>>, <<1, 0>> >>, << <<3, 0>>, <<4, 0>> >>,
      << <<6, 0>>, <<7, 0>> >>, << <<11, 0>>, <<12, 0>> >> }

WayOf(id, ref, coords) ==
    [id |-> id,
     tags |-> IF ref = None THEN EmptyDict ELSE [k \in {"ref"} |-> ref],
     coordinates |-> coords]

\* the list of the ways of the given refs and coordinates, numbered in order
WayList(shape) == [i \in 1..Len(shape) |-> WayOf(i, shape[i][1], shape[i][2])]

\* the ways of all buckets in one list, each with the ref of its bucket
Relabelled(groups) ==
    Concat([i \in 1..Len(groups) |->
               [j \in 1..Len(groups[i][2]) |->
                   [groups[i][2][j] EXCEPT
                       !.tags = [k \in {"ref"} |-> groups[i][1]]]]])

InitBuckets ==
    /\ \E k \in 0..MaxWays :
          \E shape \in [1..k -> RefTagChoices \X CoordinateChoices] :
              ref_ways = WayList(shape)
    /\ ref_groups = <<>> /\ display_name = <<>>
    /\ should_split = Unset /\ regrouped = <<>>
    /\ NamesIdle /\ GeneralIdle /\ GroupsIdle /\ RunIdle /\ ExtentIdle /\ SegmentsIdle /\ pc = "bucket"

GroupWaysByRef ==
    /\ pc = "bucket"
    /\ ref_groups' = group_ways_by_ref(ref_ways)
    /\ pc' = "bucketed"
    /\ UNCHANGED <<segmentVars, extentVars, ref_ways, display_name, should_split, regrouped, nameVars,
                   generalVars, groupVars, discoverVars, runVars>>

GroupAgain ==
    /\ pc = "bucketed"
    /\ regrouped' = group_ways_by_ref(Relabelled(ref_groups))
    /\ pc' = "regrouped"
    /\ UNCHANGED <<segmentVars, extentVars, ref_ways, ref_groups, display_name, should_split, nameVars,
                   generalVars, groupVars, discoverVars, runVars>>

SpecBuckets == InitBuckets /\ [][GroupWaysByRef \/ GroupAgain]_vars

(***************************************************************************)
(* Vocabulary of the claims on group_ways_by_ref.  A way's ref is read as  *)
(* its effective ref throughout: a way is blank-ref when the part of its   *)
(* ref tag before the first ";" is empty.                                  *)
(***************************************************************************)
\* the way's ref tag ("" when it has none)
RefTag(way) == IF "ref" \in DOMAIN way.tags THEN way.tags["ref"] ELSE <<>>

\* the part of the way's ref tag before its first ";"
LeadingRef(way) ==
    LET ref == RefTag(way)
    IN  CHOOSE p \in {SubSeq(ref, 1, n) : n \in 0..Len(ref)} :
            /\ \A i \in 1..Len(p) : p[i] # ";"
            /\ Len(p) = Len(ref) \/ ref[Len(p) + 1] = ";"

\* the places <<bucket, position>> at which a dict holds the way numbered id
PlacesOf(groups, id) ==
    {pl \in UNION { {<<b, j>> : j \in 1..Len(groups[b][2])} : b \in 1..Len(groups) } :
        groups[pl[1]][2][pl[2]].id = id}

\* the ref of the bucket that holds the way numbered id
BucketOf(groups, id) ==
    groups[CHOOSE b \in 1..Len(groups) :
               \E j \in 1..Len(groups[b][2]) : groups[b][2][j].id = id][1]

RECURSIVE SumLen(_)
SumLen(groups) ==
    IF groups = <<>> THEN 0 ELSE Len(Head(groups)[2]) + SumLen(Tail(groups))

Bucketed == pc \in {"bucketed", "regrouped"}

(***************************************************************************)
(* C15: the buckets of group_ways_by_ref partition the input: every input  *)
(* way is held exactly once (unchanged) and nothing else is held; every    *)
(* way whose effective ref is not blank is in the bucket keyed by it, the  *)
(* part of its ref before the first ";"; the empty list gives the empty    *)
(* mapping.                                                                *)
(***************************************************************************)
C15_BucketsPartitionByFirstRef ==
    Bucketed =>
        /\ IsDict(ref_groups)
        /\ SumLen(ref_groups) = Len(ref_ways)
        /\ \A i \in 1..Len(ref_ways) :
              /\ Cardinality(PlacesOf(ref_groups, i)) = 1
              /\ \A pl \in PlacesOf(ref_groups, i) :
                    ref_groups[pl[1]][2][pl[2]] = ref_ways[i]
              /\ LeadingRef(ref_ways[i]) # <<>> =>
                    BucketOf(ref_groups, i) = LeadingRef(ref_ways[i])
        /\ ref_ways = <<>> => ref_groups = <<>>

\* a way tagged "E19;E20;E1A" and a way tagged "E19" share the bucket "E19",
\* beside a bucket "E20"
C15_Witness ==
    /\ Bucketed
    /\ Len(ref_ways) = 3
    /\ RefTag(ref_ways[1]) = <<"E","1","9",";","E","2","0",";","E","1","A">>
    /\ RefTag(ref_ways[2]) = <<"E","2","0">>
    /\ RefTag(ref_ways[3]) = <<"E","1","9">>
    /\ Len(ref_groups) = 2
    /\ BucketOf(ref_groups, 1) = <<"E","1","9">>
    /\ BucketOf(ref_groups, 3) = <<"E","1","9">>

(***************************************************************************)
(* C16: when some way has a ref, no empty-ref bucket remains and every     *)
(* blank-ref way is in a bucket no other bucket is nearer than, by the     *)
(* least point-to-point distance between the way and the bucket as it      *)
(* stood when the way was merged (the ways of that ref and the blank-ref   *)
(* ways before it in the list that went there); when no way has a ref,     *)
(* all ways are in the single empty-ref bucket.                            *)
(***************************************************************************)
BlankWays == {i \in 1..Len(ref_ways) : LeadingRef(ref_ways[i]) = <<>>}

\* the input ways in bucket ref when the i-th way is merged
BucketBefore(ref, i) ==
    {k \in 1..Len(ref_ways) :
        /\ BucketOf(ref_groups, k) = ref
        /\ k \notin BlankWays \/ k < i}

PointsOf(S) ==
    UNION { {ref_ways[k].coordinates[j] : j \in 1..Len(ref_ways[k].coordinates)} :
            k \in S }

\* the least squared distance between a point of way i and a point of S
Gap(i, S) ==
    Min({ (p[1] - q[1]) * (p[1] - q[1]) + (p[2] - q[2]) * (p[2] - q[2]) :
            p \in PointsOf({i}), q \in PointsOf(S) })

C17_GroupingIsIdempotent ==
    pc = "regrouped" =>
        /\ {regrouped[b][1] : b \in 1..Len(regrouped)}
              = {ref_groups[b][1] : b \in 1..Len(ref_groups)}
        /\ SumLen(regrouped) = SumLen(ref_groups)
        /\ \A i \in 1..Len(ref_ways) :
              /\ Cardinality(PlacesOf(regrouped, i)) = 1
              /\ BucketOf(regrouped, i) = BucketOf(ref_groups, i)

\* the first result had two buckets, a compound ref and a merged blank-ref way
C17_Witness ==
    /\ pc = "regrouped"
    /\ Len(ref_groups) = 2
    /\ BlankWays # {}
    /\ \E i \in 1..Len(ref_ways) :
          LeadingRef(ref_ways[i]) # <<>> /\ LeadingRef(ref_ways[i]) # RefTag(ref_ways[i])

(***************************************************************************)
(* C18: the catalog generate_groups writes has 16 entries of pairwise      *)
(* distinct names, the i-th (from 0) of order i; the first is 首都高速,     *)
(* urban, the last 北海道, general; an entry is urban exactly when its     *)
(* name is one of 首都高速, 名古屋高速, 阪神高速, 広島高速, 北九州高速,      *)
(* 福岡高速; every label of CORE_HIGHWAYS is the name of a general entry.   *)
(***************************************************************************)
SixUrbanNames ==
    { <<"shu","to","kou","soku">>, <<"na","go","ya","kou","soku">>,
      <<"han","kami","kou","soku">>, <<"hiro","shima","kou","soku">>,
      <<"kita","kyu","shuu","kou","soku">>, <<"fuku","oka","kou","soku">> }

C18_CatalogOfSixteen ==
    "group.json" \in written =>
        /\ Len(group_catalog) = 16
        /\ \A i, j \in 1..Len(group_catalog) :
              group_catalog[i].name = group_catalog[j].name => i = j
        /\ \A i \in 1..Len(group_catalog) :
              /\ group_catalog[i].order = i - 1
              /\ group_catalog[i].type \in {"urban", "general"}
              /\ group_catalog[i].type = "urban"
                    <=> group_catalog[i].name \in SixUrbanNames
        /\ group_catalog[1].name = <<"shu","to","kou","soku">>
        /\ group_catalog[1].type = "urban"
        /\ group_catalog[16].name = <<"kita","umi","michi">>
        /\ group_catalog[16].type = "general"
        /\ \A k \in 1..Len(CORE_HIGHWAYS) :
              \E i \in 1..Len(group_catalog) :
                  /\ group_catalog[i].name = CORE_HIGHWAYS[k][2]
                  /\ group_catalog[i].type = "general"

\* a run over two discovered highways has written the catalog
C18_Witness ==
    /\ pc = "done"
    /\ "group.json" \in written
    /\ Len(targets) = 2
    /\ group_catalog # <<>>

(***************************************************************************)
(* C19: the list discover_highways returns, and so the targets of the run, *)
(* is in strictly ascending order of base name (one record per name); it   *)
(* holds, without a name filter, exactly the base names of the qualifying  *)
(* relations processed, each with the number of distinct ways those        *)
(* relations name, so it does not depend on the order of the relations;    *)
(* and the entries of the index stand in the order of the targets.         *)
(***************************************************************************)
\* a sorts before b, by code points
Precedes(a, b) ==
    \E i \in 1..(Len(b)) :
        /\ \A k \in 1..(i - 1) : k <= Len(a) /\ a[k] = b[k]
        /\ i > Len(a) \/ (i <= Len(a) /\ CodePoint[a[i]] < CodePoint[b[i]])

\* the ways the processed relations of base name b name
WaysNamed(b) ==
    UNION { {relations[i].members[j].ref :
                j \in {m \in 1..Len(relations[i].members) :
                         relations[i].members[m].type = "w"}} :
            i \in {k \in 1..Len(relations) :
                     Qualifies(relations[k]) /\ BaseOf(relations[k]) = b} }

BasesProcessed ==
    {BaseOf(relations[i]) : i \in {k \in 1..Len(relations) : Qualifies(relations[k])}}

TargetPosition(n) == CHOOSE t \in 1..Len(targets) : targets[t].name = n

MaxCoords == 3

GridPoint(dx, dy) == <<TOKYO_STATION[1] + dx, TOKYO_STATION[2] + dy>>

PointChoices == {GridPoint(dx, dy) : dx \in -1..1, dy \in -1..1}

CenterChoices == {TOKYO_STATION, GridPoint(1, 0)}

InitExtent ==
    /\ \E k \in 0..MaxCoords : extent_coords \in [1..k -> PointChoices]
    /\ extent_center \in CenterChoices
    /\ extent_segment = Unset
    /\ NamesIdle /\ GeneralIdle /\ GroupsIdle /\ RunIdle /\ RefIdle /\ SegmentsIdle /\ pc = "extent"

GetExtentSegment ==
    /\ pc = "extent"
    /\ extent_segment' = get_extent_segment(extent_coords, extent_center)
    /\ pc' = "measured"
    /\ UNCHANGED <<segmentVars, extent_coords, extent_center, nameVars, generalVars, groupVars,
                   discoverVars, runVars, refVars>>

SpecExtent == InitExtent /\ [][GetExtentSegment]_vars

(***************************************************************************)
(* C20: get_extent_segment returns None for the empty list; otherwise the  *)
(* pair of the first element of coords at the least squared distance from  *)
(* center and the first element at the greatest; a single point is both.   *)
(***************************************************************************)
SquaredDistance(i) ==
    (extent_coords[i][1] - extent_center[1]) * (extent_coords[i][1] - extent_center[1])
  + (extent_coords[i][2] - extent_center[2]) * (extent_coords[i][2] - extent_center[2])

FirstNearest ==
    CHOOSE i \in 1..Len(extent_coords) :
        /\ \A j \in 1..Len(extent_coords) : SquaredDistance(i) <= SquaredDistance(j)
        /\ \A j \in 1..(i - 1) : SquaredDistance(j) > SquaredDistance(i)

FirstFarthest ==
    CHOOSE i \in 1..Len(extent_coords) :
        /\ \A j \in 1..Len(extent_coords) : SquaredDistance(i) >= SquaredDistance(j)
        /\ \A j \in 1..(i - 1) : SquaredDistance(j) < SquaredDistance(i)

C20_ExtentIsFirstNearestAndFarthest ==
    pc = "measured" =>
        IF extent_coords = <<>>
        THEN extent_segment = None
        ELSE /\ Len(extent_segment) = 2
             /\ extent_segment[1] = extent_coords[FirstNearest]
             /\ extent_segment[2] = extent_coords[FirstFarthest]
             /\ Len(extent_coords) = 1 =>
                   extent_segment = <<extent_coords[1], extent_coords[1]>>

\* three points, the first at the centre, the other two tied for farthest
\* and at different places
C20_Witness ==
    /\ pc = "measured"
    /\ Len(extent_coords) = 3
    /\ SquaredDistance(1) = 0
    /\ SquaredDistance(2) = SquaredDistance(3)
    /\ SquaredDistance(2) > 0
    /\ extent_coords[2] # extent_coords[3]
    /\ Len(extent_segment) = 2
    /\ extent_segment = <<extent_coords[1], extent_coords[2]>>

(***************************************************************************)
(* segments_intersect and segment_to_segment_distance on their own: every  *)
(* pair of segments, zero-length ones included, between the points of the  *)
(* grid 0..MaxLon by 0..2.                                                 *)
(***************************************************************************)
MaxLon == 2

GridChoices == (0..MaxLon) \X (0..2)

InitSegments ==
    /\ segment1 \in GridChoices \X GridChoices
    /\ segment2 \in GridChoices \X GridChoices
    /\ crossing = Unset /\ segment_distance = Unset
    /\ NamesIdle /\ GeneralIdle /\ GroupsIdle /\ RunIdle /\ RefIdle /\ ExtentIdle
    /\ pc = "segments"

SegmentsIntersect ==
    /\ pc = "segments"
    /\ crossing' = segments_intersect(segment1, segment2)
    /\ pc' = "crossed"
    /\ UNCHANGED <<segment1, segment2, segment_distance, nameVars, generalVars,
                   groupVars, discoverVars, runVars, refVars, extentVars>>

SegmentToSegmentDistance ==
    /\ pc = "crossed"
    /\ segment_distance' = segment_to_segment_distance(segment1, segment2)
    /\ pc' = "distanced"
    /\ UNCHANGED <<segment1, segment2, crossing, nameVars, generalVars,
                   groupVars, discoverVars, runVars, refVars, extentVars>>

SpecSegments == InitSegments /\ [][SegmentsIntersect \/ SegmentToSegmentDistance]_vars

(***************************************************************************)
(* C21: segments_intersect is true exactly when the endpoints of each      *)
(* segment lie strictly on opposite sides of the line through the other;   *)
(* it is false for parallel segments, for collinear ones and for segments  *)
(* of which one has an endpoint on the other.                              *)
(***************************************************************************)
\* 1, -1 or 0: the side of the line from seg[1] to seg[2] that p is on
Side(p, seg) ==
    LET turn == (seg[2][1] - seg[1][1]) * (p[2] - seg[1][2])
              - (seg[2][2] - seg[1][2]) * (p[1] - seg[1][1])
    IN  IF turn > 0 THEN 1 ELSE IF turn < 0 THEN -1 ELSE 0

StrictlyApart(seg, other) ==
    /\ Side(seg[1], other) # 0 /\ Side(seg[2], other) # 0
    /\ Side(seg[1], other) # Side(seg[2], other)

Parallel(s, t) ==
    (s[2][1] - s[1][1]) * (t[2][2] - t[1][2])
  = (s[2][2] - s[1][2]) * (t[2][1] - t[1][1])

Collinear(s, t) ==
    /\ Side(s[1], t) = 0 /\ Side(s[2], t) = 0
    /\ Side(t[1], s) = 0 /\ Side(t[2], s) = 0

Between(a, x, b) == (a <= x /\ x <= b) \/ (b <= x /\ x <= a)

\* the point p lies on the segment seg
OnSegment(p, seg) ==
    /\ IF seg[1] = seg[2] THEN p = seg[1] ELSE Side(p, seg) = 0
    /\ Between(seg[1][1], p[1], seg[2][1])
    /\ Between(seg[1][2], p[2], seg[2][2])

Touching(s, t) ==
    \/ OnSegment(s[1], t) \/ OnSegment(s[2], t)
    \/ OnSegment(t[1], s) \/ OnSegment(t[2], s)

C21_IntersectIsStrictCrossing ==
    pc \in {"crossed", "distanced"} =>
        /\ crossing <=> (StrictlyApart(segment1, segment2)
                           /\ StrictlyApart(segment2, segment1))
        /\ Parallel(segment1, segment2) => ~crossing
        /\ Collinear(segment1, segment2) => ~crossing
        /\ Touching(segment1, segment2) => ~crossing

\* the diagonals of the square cross
C21_Witness ==
    /\ pc = "crossed"
    /\ segment1 = << <<0, 0>>, <<2, 2>> >>
    /\ segment2 = << <<0, 2>>, <<2, 0>> >>
    /\ crossing = TRUE

(***************************************************************************)
(* C22: segment_to_segment_distance is 0 when segments_intersect is true;  *)
(* otherwise its square is the least of the four squared distances from an *)
(* endpoint to the other segment, measured to the point at the projection  *)
(* parameter clamped to [0, 1], or to the single point of a zero-length    *)
(* segment; two horizontal segments, one a unit above the other and over   *)
(* a common stretch of x, are at distance 1.                               *)
(***************************************************************************)
\* quotients are pairs <<numerator, denominator>>, denominator > 0
QLeq(a, b) == a[1] * b[2] <= b[1] * a[2]

QEq(a, b) == a[1] * b[2] = b[1] * a[2]

\* the projection parameter of p on seg, clamped to [0, 1]
ClampedParameter(p, seg) ==
    LET along == (p[1] - seg[1][1]) * (seg[2][1] - seg[1][1])
               + (p[2] - seg[1][2]) * (seg[2][2] - seg[1][2])
        length2 == (seg[2][1] - seg[1][1]) * (seg[2][1] - seg[1][1])
                 + (seg[2][2] - seg[1][2]) * (seg[2][2] - seg[1][2])
    IN  IF along < 0 THEN <<0, 1>>
        ELSE IF along > length2 THEN <<1, 1>>
        ELSE <<along, length2>>

\* the squared distance from p to the point of seg at parameter t
SquaredDistanceAt(p, seg, t) ==
    LET gapx == t[2] * (p[1] - seg[1][1]) - t[1] * (seg[2][1] - seg[1][1])
        gapy == t[2] * (p[2] - seg[1][2]) - t[1] * (seg[2][2] - seg[1][2])
    IN  <<gapx * gapx + gapy * gapy, t[2] * t[2]>>

EndpointDistance2(p, seg) ==
    IF seg[1] = seg[2] THEN SquaredDistanceAt(p, seg, <<0, 1>>)
    ELSE SquaredDistanceAt(p, seg, ClampedParameter(p, seg))

FourDistances ==
    { EndpointDistance2(segment1[1], segment2), EndpointDistance2(segment1[2], segment2),
      EndpointDistance2(segment2[1], segment1), EndpointDistance2(segment2[2], segment1) }

Horizontal(seg) == seg[1][2] = seg[2][2] /\ seg[1][1] # seg[2][1]

Leftmost(seg) == IF seg[1][1] <= seg[2][1] THEN seg[1][1] ELSE seg[2][1]

Rightmost(seg) == IF seg[1][1] >= seg[2][1] THEN seg[1][1] ELSE seg[2][1]

StackedOneApart ==
    /\ Horizontal(segment1) /\ Horizontal(segment2)
    /\ segment1[1][2] - segment2[1][2] \in {1, -1}
    /\ Leftmost(segment1) <= Rightmost(segment2)
    /\ Leftmost(segment2) <= Rightmost(segment1)

C22_DistanceIsLeastOfFour ==
    pc = "distanced" =>
        /\ crossing => segment_distance[1] = 0
        /\ ~crossing =>
              /\ \E d \in FourDistances : QEq(segment_distance, d)
              /\ \A d \in FourDistances : QLeq(segment_distance, d)
        /\ StackedOneApart => QEq(segment_distance, <<1, 1>>)

\* (0,0)-(2,0) under (0,1)-(2,1)
C22_Witness ==
    /\ pc = "distanced"
    /\ segment1 = << <<0, 0>>, <<2, 0>> >>
    /\ segment2 = << <<0, 1>>, <<2, 1>> >>
    /\ ~crossing
    /\ QEq(segment_distance, <<1, 1>>)

(***************************************************************************)
(* C23: way_ids_by_name and highway_info always have the same keys; the    *)
(* record of key b has the name b; every key is non-empty and is the base  *)
(* name of a relation processed; and every qualifying relation processed   *)
(* has its base name among the keys, with an empty way-id set when no      *)
(* relation of that name had a way member.                                 *)
(***************************************************************************)
C23_KeysAgree ==
    /\ DOMAIN way_ids_by_name = DOMAIN highway_info
    /\ \A b \in DOMAIN highway_info :
          /\ highway_info[b].name = b
          /\ b # <<>> /\ b # None
          /\ \E i \in 1..Len(relations) :
                Qualifies(relations[i]) /\ BaseOf(relations[i]) = b
    /\ \A i \in 1..Len(relations) :
          Qualifies(relations[i]) =>
              /\ BaseOf(relations[i]) \in DOMAIN way_ids_by_name
              /\ WaysNamed(BaseOf(relations[i])) = {} =>
                    way_ids_by_name[BaseOf(relations[i])] = {}

\* 中央自動車道 is a key with no way, next to 東名高速道路, collected from
\* 東名高速道路（上り）
C23_Witness ==
    /\ CHUO \in DOMAIN way_ids_by_name
    /\ way_ids_by_name[CHUO] = {}
    /\ TOMEI \in DOMAIN highway_info
    /\ highway_info[TOMEI].ref = <<"E1">>
    /\ Len(relations) = 2

(***************************************************************************)
(* C24: way_ids_by_name is decided by which relations were processed, not  *)
(* by their order: its keys are the base names of the qualifying relations *)
(* processed, and the set of a key is the union of the ids of the members  *)
(* of type "w" of the qualifying relations with that base name.            *)
(***************************************************************************)
C24_WayIdsAreTheUnion ==
    /\ DOMAIN way_ids_by_name = BasesProcessed
    /\ \A b \in DOMAIN way_ids_by_name : way_ids_by_name[b] = WaysNamed(b)

\* 東名高速道路 with ways 3 and 4 was processed before 東名高速道路（上り）
\* with way 3 and node 1
C24_Witness ==
    /\ Len(relations) = 2
    /\ Qualifies(relations[1]) /\ Qualifies(relations[2])
    /\ BaseOf(relations[1]) = TOMEI /\ BaseOf(relations[2]) = TOMEI
    /\ Len(relations[1].members) = 2 /\ relations[1].members[2].type = "w"
    /\ Len(relations[2].members) = 2 /\ relations[2].members[2].type = "n"
    /\ way_ids_by_name[TOMEI] = {3, 4}

(***************************************************************************)
(* C25: detect_group returns None for each of the ten keys of              *)
(* CORE_HIGHWAYS, and after assign_groups every entry named by such a key  *)
(* carries the label CORE_HIGHWAYS gives that key, whatever the other      *)
(* entries and the GeoJSONs are.                                           *)
(***************************************************************************)
\* the core highways that detect_group takes for urban expressways
UrbanCoreKeys == {k \in 1..Len(CORE_HIGHWAYS) : detect_group(CORE_HIGHWAYS[k][1]) # None}

C25_CoreKeepsItsLabel ==
    pc = "grouped" =>
        /\ Len(CORE_HIGHWAYS) = 10
        /\ UrbanCoreKeys = {}
        /\ \A i \in 1..Len(highways_info) : \A k \in 1..Len(CORE_HIGHWAYS) :
              highways_info[i].name = CORE_HIGHWAYS[k][1] =>
                  highways_info[i].group = CORE_HIGHWAYS[k][2]

\* 道央自動車道, without coordinates of its own, listed behind an urban
\* expressway, with 東名高速道路 among the GeoJSONs
C25_Witness ==
    /\ pc = "grouped"
    /\ Len(highways_info) = 2
    /\ highways_info[1].name = SHUTO_UENO
    /\ highways_info[2].name = DOO
    /\ highways_info[2].group = CORE_HIGHWAYS[10][2]
    /\ TOMEI \in DOMAIN highway_geojsons /\ highway_geojsons[TOMEI] = GEO_NORTH
    /\ DOO \notin DOMAIN highway_geojsons

(***************************************************************************)
(* C26: detect_group returns what it would return with its third check,    *)
(* the urban prefix followed by 道路, deleted: a name that passes the      *)
(* third check has passed the first.                                       *)
(***************************************************************************)
\* detect_group without the loop over alt_prefix
DetectWithoutAltPrefix(n) ==
    IF PrefixHits(n) # {} THEN URBAN_EXPRESSWAY_PREFIXES[Min(PrefixHits(n))]
    ELSE IF AliasHits(n) # {} THEN URBAN_EXPRESSWAY_ALIASES[Min(AliasHits(n))][2]
    ELSE IF StartsWith(n, NAGOYA) THEN NAGOYA_GROUP
    ELSE None

C26_AltPrefixNeverDecides ==
    urban_group # Unset =>
        /\ urban_group = DetectWithoutAltPrefix(name)
        /\ AltPrefixHits(name) \subseteq PrefixHits(name)

\* 首都高速道路1号線, which the third check would catch
C26_Witness ==
    /\ name = <<"shu","to","kou","soku","michi","ro","1","gou","sen">>
    /\ AltPrefixHits(name) = {1}
    /\ urban_group = <<"shu","to","kou","soku">>

(***************************************************************************)
(* C27: in exact arithmetic segment_to_segment_distance is 0 exactly for   *)
(* the pairs of segments, zero-length ones included, that have a point in  *)
(* common, whether or not segments_intersect reports them, and positive    *)
(* for all others; and it is the same for (seg2, seg1) as for (seg1, seg2).*)
(***************************************************************************)
\* The lines through two segments of the grid that are not parallel meet at
\* a parameter k / d of the first with d <= 4 * MaxLon; a grid point on a
\* segment has a parameter with d <= MaxLon or d <= 2.
Denominators == 1..(4 * MaxLon)

\* d times the point of seg at parameter k / d
ScaledPointAt(seg, k, d) ==
    << d * seg[1][1] + k * (seg[2][1] - seg[1][1]),
       d * seg[1][2] + k * (seg[2][2] - seg[1][2]) >>

\* the point x / d lies on seg
ScaledOnSegment(x, d, seg) ==
    /\ (seg[2][1] - seg[1][1]) * (x[2] - d * seg[1][2])
         = (seg[2][2] - seg[1][2]) * (x[1] - d * seg[1][1])
    /\ Between(d * seg[1][1], x[1], d * seg[2][1])
    /\ Between(d * seg[1][2], x[2], d * seg[2][2])

\* some point of segment1 is a point of segment2
SharePoint ==
    \E d \in Denominators : \E k \in 0..d :
        ScaledOnSegment(ScaledPointAt(segment1, k, d), d, segment2)

C27_ZeroIffSharedPoint ==
    pc = "distanced" =>
        /\ segment_distance[2] > 0 /\ segment_distance[1] >= 0
        /\ SharePoint <=> segment_distance[1] = 0
        /\ QEq(segment_distance, segment_to_segment_distance(segment2, segment1))

\* (1,0)-(1,1) stands on the middle of (0,0)-(2,0): no intersection is
\* reported, the distance is 0
C27_Witness ==
    /\ pc = "distanced"
    /\ segment1 = << <<0, 0>>, <<2, 0>> >>
    /\ segment2 = << <<1, 0>>, <<1, 1>> >>
    /\ ~crossing
    /\ SharePoint
    /\ segment_distance[1] = 0

=============================================================================
